---- MODULE Spec2Model ----
(***************************************************************************)
(* Grid movement of the CFD suite: surface deformation by design           *)
(* variables (CSurfaceMovement), the grid quality check, the Dirichlet     *)
(* rows of the elasticity system and the rigid translation of the volume   *)
(* mesh (CVolumetricMovement), modelled from                               *)
(* Common/src/grid_movement_structure.cpp and                              *)
(* Common/include/dual_grid_structure.inl.                                 *)
(*                                                                         *)
(* Real numbers are fixed-point integers: a length, a coordinate or a      *)
(* delta x is stored as x*Scale.  Angles are whole degrees and the values  *)
(* of sin and cos are tabulated at the multiples of 90 degrees, where      *)
(* they are integers.                                                      *)
(***************************************************************************)
EXTENDS Integers, Sequences, FiniteSets, TLC

(* ------------------------------ bounds --------------------------------- *)

\* longest design-variable list the configuration may hold (GetnDV)
MaxDV == 2

\* most direct calls of SetDisplacement the host makes in a row
MaxCalls == 2

(* --------------------------- fixed point ------------------------------- *)

\* 1.0 in fixed point (halves are representable)
Scale == 1 + 1

\* a delta left on the vertices by an earlier deformation pass
Stale == 5 * Scale

Abs(x) == IF x < 0 THEN -x ELSE x

Max2(x, y) == IF x >= y THEN x ELSE y

Min2(x, y) == IF x <= y THEN x ELSE y

\* cos and sin of a whole number of degrees that is a multiple of 90
CosDeg(theta) ==
  CASE theta % 360 = 0 -> 1
    [] theta % 360 = 90 -> 0
    [] theta % 360 = 180 -> -1
    [] theta % 360 = 270 -> 0

SinDeg(theta) ==
  CASE theta % 360 = 0 -> 0
    [] theta % 360 = 90 -> 1
    [] theta % 360 = 180 -> 0
    [] theta % 360 = 270 -> -1

\* sqrt of a perfect square
Sqrt(x) == CHOOSE r \in 0..x : r * r = x

(* ------------------------------ state ---------------------------------- *)

VARIABLES
  nDim,             \* geometry->GetnDim()
  nDV,              \* config->GetnDV()
  Design_Variable,  \* config->GetDesign_Variable(iDV), iDV in 0..nDV-1
  DV_Value,         \* config->GetDV_Value(iDV)
  ParamDV,          \* config->GetParamDV(iDV, k), k in 0..5 (stored at k+1)
  VarCoord,         \* vertex[iMarker][iVertex]->VarCoord, by vertex
  pc,               \* position of SetSurface_Deformation
  iDV,              \* loop counter of the running loop of SetSurface_Deformation
  applied           \* the Set* calls made so far: <<[iDV, ResetDef]>>

surfVars == <<nDim, nDV, Design_Variable, DV_Value, ParamDV, VarCoord, pc, iDV, applied>>

VARIABLES
  HAVE_MPI,     \* the build has MPI: Check_Grid ends with the three Allreduce
  elem,         \* by rank: geometry->elem, <<[VTK_Type, Node]>>
  node,         \* by rank: geometry->node[iPoint]->GetCoord(), by point id
  inverted,     \* <<rank, iElem>> of the element whose corners were swapped, or <<>>
  cgpc,         \* by rank: position in Check_Grid
  ElemCounter,  \* by rank: the local ElemCounter
  MinArea,      \* by rank
  MaxArea,      \* by rank
  MinVolume,    \* by rank
  MaxVolume,    \* by rank
  SendBuf,      \* by rank: ElemCounter_Local, MaxVolume_Local, MinVolume_Local
  cgReturn      \* by rank: the value Check_Grid returned

gridVars == <<HAVE_MPI, elem, node, inverted, cgpc, ElemCounter, MinArea, MaxArea,
              MinVolume, MaxVolume, SendBuf, cgReturn>>

VARIABLES
  config,          \* Kind_SU2, GridDef_Nonlinear_Iter, Hold_GridFixed, Marker_All_*
  Coord,           \* geometry->node[iPoint]->GetCoord(), by point
  LinSysRes,       \* by total_index = iPoint*nDim + iDim
  LinSysSol,       \* by total_index
  RowDeleted,      \* by total_index: DeleteValsRowi made the row a Dirichlet row
  iNonlinear_Iter, \* loop counter of SetVolume_Deformation
  vpc              \* position in the body of that loop

volVars == <<config, Coord, LinSysRes, LinSysSol, RowDeleted, iNonlinear_Iter, vpc>>

VARIABLES
  rconfig,            \* the options Rigid_Translation reads, constant in a run
  iZone,              \* the zone the host moves
  ExtIter,            \* the iteration of the next call
  rCoord,             \* node[iPoint]->GetCoord(), by point
  GridVel,            \* node[iPoint]->GetGridVel(), by point
  Motion_Origin,      \* by zone
  RefOriginMoment,    \* of the monitored marker
  calls               \* the calls made so far: <<[routine, iter, deltaT, before]>>

rigidVars == <<rconfig, iZone, ExtIter, rCoord, GridVel, Motion_Origin, RefOriginMoment,
               calls>>

VARIABLES
  Coord_Corner_Points,  \* of the FFD box, by corner 0..7
  pointCoord,           \* geometry->node[iPoint]->GetCoord() of the point asked about
  Inside                \* <<what GetPointFFD returned>>, <<>> before the call

boxVars == <<Coord_Corner_Points, pointCoord, Inside>>

VARIABLES
  nFFD_Iter,      \* config->GetnFFD_Iter()
  iterFFD,        \* iter, the loop counter of GetParametricCoord_Iterative
  RandonCounter,  \* the restarts counted so far
  SOR_Factor,     \* in tenths
  ParamCoord,     \* the estimate: where it started from and the updates since
  drawn,          \* the random guesses drawn so far
  cout,           \* the diagnostics written so far
  npc,            \* position in GetParametricCoord_Iterative
  returned        \* <<what the routine returned>>

newtonVars == <<nFFD_Iter, iterFFD, RandonCounter, SOR_Factor, ParamCoord, drawn, cout, npc,
                returned>>

VARIABLES
  val_n,       \* the degree asked for
  val_i,       \* the index asked for
  val_t,       \* the parameter asked for, in parts of TDen
  val_order,   \* the order of derivation asked for
  basis,       \* GetBernstein(val_n, i, val_t) by i, <<>> before the calls
  derivative   \* <<GetBernsteinDerivative(val_n, val_i, val_t, val_order)>>

bernVars == <<val_n, val_i, val_t, val_order, basis, derivative>>

VARIABLES
  bin_n,     \* n of the call of Binomial
  bin_m,     \* m of the call of Binomial
  bin_i,     \* i, the counter of the outer loop of Binomial
  binomial,  \* the entries of the buffer written so far, by index
  bin_value  \* <<the value Binomial returned>>

binomialVars == <<bin_n, bin_m, bin_i, binomial, bin_value>>

\* the variables of the free-form deformation box
VARIABLES
  FFDBox,            \* the boxes the writing run holds, in their order
  nLevel,            \* the number of nested levels the writing run holds
  writerOfPartition, \* whether the writer of a partition writes the boxes
  mesh_file,         \* the lines of the mesh file, each a sequence of characters
  FFDBox_in,         \* the boxes the reading run holds
  nFFDBox_in,        \* nFFDBox of the reading run
  nLevel_in,         \* nLevel of the reading run
  FFDBoxDefinition,  \* whether a box of the file had control points
  said,              \* the diagnostics the reading run has put on cout
  exited,            \* whether the reading run has called exit(EXIT_FAILURE)
  fpc                \* "write", "read", "done"; "off" when no box is written

fileVars == <<FFDBox, nLevel, writerOfPartition, mesh_file, FFDBox_in, nFFDBox_in, nLevel_in,
              FFDBoxDefinition, said, exited, fpc>>

\* the ranks of a distributed run at the collective operations of a routine
VARIABLES
  mpiRoutine,     \* the routine every rank calls
  Kind_SU2,    \* config->GetKind_SU2()
  nFFDBox_all, \* the number of boxes of the mesh, on every rank
  nOwned,      \* by rank: the elements, vertices or surface points the rank owns
  rankStep,    \* by rank: the step of the routine the rank is at
  iLocal,      \* by rank: the counter of the local loop the rank is in
  rankAt,      \* by rank: "work", "collective", "returned" or "fault"
  entered      \* by rank: the collectives the rank has entered, in order

mpiVars == <<mpiRoutine, Kind_SU2, nFFDBox_all, nOwned, rankStep, iLocal, rankAt, entered>>

\* the apply-deformation pass of SetSurface_Deformation over the boxes
VARIABLES
  atLevel,  \* iLevel of the pass
  atBox,    \* iFFDBox of the pass
  passAt,   \* "loop", "done" or "fault"
  passLog   \* the calls the pass has made on the boxes, in order

passVars == <<atLevel, atBox, passAt, passLog>>

\* the control-point indices of a box
VARIABLES
  FFDTag,      \* config->GetFFDTag(iDV)
  index_used,  \* the index triples the lattice of the box was accessed with
  cpAt         \* "read", "set", "done" or "fault"

cpVars == <<FFDTag, index_used, cpAt>>

\* a point of the dual grid and its map of vertices by marker
VARIABLES
  Boundary,     \* CPoint::Boundary
  vertex,       \* CPoint::vertex: "NULL", "allocated" or "deleted" (dangling)
  vertexMap,    \* the entries of the array vertex points to, by marker
  nDelete,      \* how often delete [] was applied to the array
  nInvalid,     \* how often the array was read or written when it was not valid
  GetVertexOut, \* <<what the last GetVertex returned>>
  nPointCalls   \* the calls made on the point

pointVars == <<Boundary, vertex, vertexMap, nDelete, nInvalid, GetVertexOut, nPointCalls>>

\* the parts added to the free-form ones
moreVars == <<mpiVars, passVars, cpVars, pointVars>>

ffdVars == <<boxVars, newtonVars, bernVars, binomialVars, fileVars, moreVars>>

vars == <<surfVars, gridVars, volVars, rigidVars, ffdVars>>

\* what the routines of each part leave alone
notSurf == <<gridVars, volVars, rigidVars, ffdVars>>

surfOwn == <<nDV, Design_Variable, DV_Value, ParamDV, VarCoord, pc, iDV, applied>>

notGrid == <<surfOwn, volVars, rigidVars, ffdVars>>

notVol == <<surfOwn, gridVars, rigidVars, ffdVars>>

notRigid == <<surfOwn, gridVars, volVars, ffdVars>>

notFFD == <<surfOwn, gridVars, volVars, rigidVars, moreVars>>

notBox == <<notFFD, newtonVars, bernVars, binomialVars, fileVars>>

notNewton == <<notFFD, nDim, boxVars, bernVars, binomialVars, fileVars>>

notBern == <<notFFD, nDim, boxVars, newtonVars, binomialVars, fileVars>>

notBinomial == <<notFFD, nDim, boxVars, newtonVars, bernVars, fileVars>>

\* what the reading and the writing of the boxes leave alone
notFile == <<notFFD, boxVars, newtonVars, bernVars, binomialVars>>

\* what the free-form branches of SetSurface_Deformation leave alone
notDeform == <<gridVars, volVars, rigidVars, boxVars, newtonVars, bernVars, binomialVars,
               moreVars>>

\* the parts that were there before the added ones
oldVars == <<surfVars, gridVars, volVars, rigidVars, boxVars, newtonVars, bernVars, binomialVars,
             fileVars>>

\* what the ranks at their collectives leave alone
notMpi == <<oldVars, passVars, cpVars, pointVars>>

\* what the calls on a point leave alone
notPoint == <<oldVars, mpiVars, passVars, cpVars>>

\* what the apply-deformation pass leaves alone
notPass == <<gridVars, volVars, rigidVars, boxVars, newtonVars, bernVars, binomialVars, mpiVars,
             cpVars, pointVars>>

\* what the accesses to the control points of a box leave alone
notCP == <<gridVars, volVars, rigidVars, boxVars, newtonVars, bernVars, binomialVars, mpiVars,
           passVars, pointVars>>

(* ----------------------- the boundary (fixed) -------------------------- *)

\* enum values of the configuration (option_structure), as the code compares them
NO == 0

YES == 1

\* a unit-chord airfoil (marker 1) and a far-field point (marker 2):
\* leading edge, upper point, trailing edge, lower point, far field
Vertices == 1..5

VertexMarker == <<1, 1, 1, 1, 2>>

\* vertex->GetCoord(), the CartCoord copied by CopyBoundary
VertexCoord ==
  << <<0, 0, 0>>, <<Scale \div 2, Scale \div 2, 0>>, <<Scale, 0, 0>>,
     <<Scale \div 2, -(Scale \div 2), 0>>, <<2 * Scale, 2 * Scale, 0>> >>

\* vertex->GetNormal() (only its sign is used)
VertexNormal == << <<-1, 0, 0>>, <<0, 1, 0>>, <<1, 0, 0>>, <<0, -1, 0>>, <<1, 1, 0>> >>

\* config->GetMarker_All_DV(iMarker)
Marker_All_DV == <<YES, NO>>

DVVertices == {v \in Vertices : Marker_All_DV[VertexMarker[v]] = YES}

Zero3 == <<0, 0, 0>>

(* ----------------------- CVertex (dual grid) --------------------------- *)

\* CVertex::SetVarCoord: the first nDim components are overwritten
SetVarCoord(vc, val) == [i \in 1..3 |-> IF i <= nDim THEN val[i] ELSE vc[i]]

\* a faulty variant: the delta replaces the stored one instead of being added
AddVarCoord_Overwrite(vc, val) == [i \in 1..3 |-> IF i <= nDim THEN val[i] ELSE vc[i]]

\* CVertex::AddVarCoord: the first nDim components are accumulated
AddVarCoord(vc, val) == [i \in 1..3 |-> IF i <= nDim THEN vc[i] + val[i] ELSE vc[i]]

(* ------------------- analytic design variables ------------------------- *)

\* "Reset airfoil deformation if first deformation or if it required by the
\* solver": the test every Set* routine starts with
ResetRequested(i, ResetDef) == (i = 0) \/ ResetDef

\* the reset loop: SetVarCoord(0) on every vertex of every marker
ResetVarCoord(VC) == [v \in Vertices |-> SetVarCoord(VC[v], Zero3)]

\* the delta SetDisplacement adds to vertex v for design variable i
DisplacementDelta(i, v) ==
  LET Ampl == DV_Value[i]
      xDispl == ParamDV[i][1]
      yDispl == ParamDV[i][2]
      zDispl == IF nDim = 3 THEN ParamDV[i][3] ELSE 0
  IN IF Marker_All_DV[VertexMarker[v]] = YES
       THEN << (Ampl * xDispl) \div Scale, (Ampl * yDispl) \div Scale,
               IF nDim = 3 THEN (Ampl * zDispl) \div Scale ELSE 0 >>
       ELSE Zero3

\* CSurfaceMovement::SetDisplacement
SetDisplacement(VC, i, ResetDef) ==
  LET base == IF ResetRequested(i, ResetDef) THEN ResetVarCoord(VC) ELSE VC
  IN [v \in Vertices |-> AddVarCoord(base[v], DisplacementDelta(i, v))]

\* the delta SetRotation adds to vertex v for design variable i
RotationDelta(i, v) ==
  LET a == ParamDV[i][1]
      b == ParamDV[i][2]
      c == IF nDim = 3 THEN ParamDV[0][3] ELSE 0
      u == ParamDV[i][4] - ParamDV[i][1]
      vv == ParamDV[i][5] - ParamDV[i][2]
      w == IF nDim = 3 THEN ParamDV[i][6] - ParamDV[i][3] ELSE Scale
      theta == DV_Value[i]
      u2 == u * u
      v2 == vv * vv
      w2 == w * w
      cosT == CosDeg(theta)
      sinT == SinDeg(theta)
      l2 == u2 + v2 + w2
      l == Sqrt(l2)
      x == VertexCoord[v][1]
      y == VertexCoord[v][2]
      z == VertexCoord[v][3]
      m0 == a * (v2 + w2) + u * (-b * vv - c * w + u * x + vv * y + w * z)
            + (-a * (v2 + w2) + u * (b * vv + c * w - vv * y - w * z) + (v2 + w2) * x) * cosT
            + l * (-c * vv + b * w - w * y + vv * z) * sinT
      m1 == b * (u2 + w2) + vv * (-a * u - c * w + u * x + vv * y + w * z)
            + (-b * (u2 + w2) + vv * (a * u + c * w - u * x - w * z) + (u2 + w2) * y) * cosT
            + l * (c * u - a * w + w * x - u * z) * sinT
      m2 == c * (u2 + v2) + w * (-a * u - b * vv + u * x + vv * y + w * z)
            + (-c * (u2 + v2) + w * (a * u + b * vv - u * x - vv * y) + (u2 + v2) * z) * cosT
            + l * (-b * u + a * vv - vv * x + u * y) * sinT
  IN IF Marker_All_DV[VertexMarker[v]] = YES
       THEN << (m0 \div l2) - x, (m1 \div l2) - y,
               IF nDim = 3 THEN (m2 \div l2) - z ELSE 0 >>
       ELSE Zero3

\* CSurfaceMovement::SetRotation
SetRotation(VC, i, ResetDef) ==
  LET base == IF ResetRequested(i, ResetDef) THEN ResetVarCoord(VC) ELSE VC
  IN [v \in Vertices |-> AddVarCoord(base[v], RotationDelta(i, v))]

\* TPCoord of SetHicksHenne: every design-variable marker restarts the search
\* at its vertex 0, so the trailing edge is the first vertex of greatest x of
\* the last such marker
TrailingPoint ==
  LET lastDV == CHOOSE m \in 1..Len(Marker_All_DV) :
                  /\ Marker_All_DV[m] = YES
                  /\ \A k \in 1..Len(Marker_All_DV) : Marker_All_DV[k] = YES => k <= m
      cand == {v \in Vertices : VertexMarker[v] = lastDV}
      best == CHOOSE v \in cand :
                \A o \in cand : \/ VertexCoord[o][1] < VertexCoord[v][1]
                                \/ (VertexCoord[o][1] = VertexCoord[v][1] /\ v <= o)
  IN VertexCoord[best]

Dist2(p, q) == (p[1] - q[1]) * (p[1] - q[1]) + (p[2] - q[2]) * (p[2] - q[2])

\* LPCoord of SetHicksHenne: the first vertex farthest from the trailing edge
LeadingPoint ==
  LET TP == TrailingPoint
      best == CHOOSE v \in DVVertices :
                \A o \in DVVertices : \/ Dist2(VertexCoord[o], TP) < Dist2(VertexCoord[v], TP)
                                      \/ (Dist2(VertexCoord[o], TP) = Dist2(VertexCoord[v], TP) /\ v <= o)
  IN VertexCoord[best]

\* AoA = atan((LP.y - TP.y) / (TP.x - LP.x)) * 180/pi, in whole degrees; the
\* airfoil of the model lies along the x axis
AoA == CASE LeadingPoint[2] = TrailingPoint[2] /\ TrailingPoint[1] # LeadingPoint[1] -> 0

\* fk = pow(sin(pi * pow(x, ek)), 3) with ek = log10(0.5)/log10(xk), at the
\* abscissae where it is rational: 0 at x = 0, 1 at x = xk, 0 at x = 1
HicksHenne_fk(xk, x) ==
  CASE x = 0 -> 0
    [] x = xk /\ x # 0 /\ x # Scale -> Scale
    [] x = Scale /\ x # 0 -> 0

\* the delta SetHicksHenne adds to vertex v for design variable i; junk is the
\* third component of the local VarCoord_, which the routine never assigns
HicksHenneDelta(i, v, junk) ==
  LET Ampl == DV_Value[i]
      xk == ParamDV[i][2]
      BumpSize == Scale
      BumpLoc == 0
      double_surface == ParamDV[i][1] \in {NO, YES}
      upper == ParamDV[i][1] # NO
      ValCos == CosDeg(AoA)
      ValSin == SinDeg(AoA)
      Coord0 == Max2(0, VertexCoord[v][1] * ValCos - VertexCoord[v][2] * ValSin)
      Normal1 == VertexNormal[v][2] * ValCos + VertexNormal[v][1] * ValSin
      xCoord == Coord0 - BumpLoc
      fk == HicksHenne_fk(xk, Coord0)
      var1 == IF Marker_All_DV[VertexMarker[v]] # YES THEN 0
              ELSE IF double_surface
                THEN (IF upper /\ Normal1 > 0 THEN (Ampl * fk) \div Scale
                      ELSE IF ~upper /\ Normal1 < 0 THEN -((Ampl * fk) \div Scale)
                      ELSE 0)
                ELSE (IF xCoord <= 0 \/ xCoord >= BumpSize THEN 0
                      ELSE (Ampl * fk) \div Scale)
      BackCos == CosDeg(-AoA)
      BackSin == SinDeg(-AoA)
  IN << 0 * BackCos - var1 * BackSin, var1 * BackCos + 0 * BackSin, junk >>

\* CSurfaceMovement::SetHicksHenne
SetHicksHenne(VC, i, ResetDef, junk) ==
  LET base == IF ResetRequested(i, ResetDef) THEN ResetVarCoord(VC) ELSE VC
  IN [v \in Vertices |-> AddVarCoord(base[v], HicksHenneDelta(i, v, junk))]

\* DesignSize = 2.0 and DesignLoc = 1.0 of SetCosBump and SetFourier
DesignSize == 2 * Scale

DesignLoc == Scale

\* fk = 0.5*(1 + cos(pi * xl / BumpSize)) inside the bump, else 0, at the
\* offsets where it is a multiple of one half
CosBump_fk(xl, BumpSize) ==
  CASE Abs(xl) >= BumpSize -> 0
    [] xl = 0 /\ BumpSize > 0 -> Scale
    [] 2 * Abs(xl) = BumpSize /\ xl # 0 -> Scale \div 2

\* the delta SetCosBump adds to vertex v for design variable i
CosBumpDelta(i, v) ==
  LET Ampl == DV_Value[i]
      BumpCenter == DesignLoc + (ParamDV[i][2] * DesignSize) \div Scale
      BumpSize == ParamDV[i][3]
      double_surface == ParamDV[i][1] \in {NO, YES}
      upper == ParamDV[i][1] # NO
      xCoord_Local == VertexCoord[v][1] - BumpCenter
      fk == CosBump_fk(xCoord_Local, BumpSize)
      Normal1 == VertexNormal[v][2]
      var1 == IF Marker_All_DV[VertexMarker[v]] # YES THEN 0
              ELSE IF double_surface
                THEN (IF upper /\ Normal1 > 0 THEN (Ampl * fk) \div Scale
                      ELSE IF ~upper /\ Normal1 < 0 THEN -((Ampl * fk) \div Scale)
                      ELSE 0)
                ELSE (Ampl * fk) \div Scale
  IN <<0, var1, 0>>

\* CSurfaceMovement::SetCosBump
SetCosBump(VC, i, ResetDef) ==
  LET base == IF ResetRequested(i, ResetDef) THEN ResetVarCoord(VC) ELSE VC
  IN [v \in Vertices |-> AddVarCoord(base[v], CosBumpDelta(i, v))]

\* fk of SetFourier: 0 outside the window, 0.5 for n = 0, else cos or sin of
\* omega_n * xl with omega_n = 2*pi*n/T and T = DesignSize = 2.0
Fourier_fk(xl, n, useSin) ==
  IF 2 * xl < -DesignSize \/ 2 * xl > DesignSize THEN 0
  ELSE IF n = 0 THEN Scale \div 2
  ELSE IF ~useSin THEN Scale * CosDeg((180 * n * xl) \div Scale)
  ELSE Scale * SinDeg((180 * n * xl) \div Scale)

\* the delta SetFourier adds to vertex v for design variable i
FourierDelta(i, v) ==
  LET Ampl == DV_Value[i]
      n == ParamDV[i][2] \div Scale
      useSin == (ParamDV[i][3] \div Scale) # 0
      double_surface == ParamDV[i][1] \in {NO, YES}
      upper == ParamDV[i][1] # NO
      xCoord_Local == VertexCoord[v][1] - (DesignLoc + DesignSize \div 2)
      fk == Fourier_fk(xCoord_Local, n, useSin)
      Normal1 == VertexNormal[v][2]
      var1 == IF Marker_All_DV[VertexMarker[v]] # YES THEN 0
              ELSE IF double_surface
                THEN (IF upper /\ Normal1 > 0 THEN (Ampl * fk) \div Scale
                      ELSE IF ~upper /\ Normal1 < 0 THEN -((Ampl * fk) \div Scale)
                      ELSE 0)
                ELSE (Ampl * fk) \div Scale
  IN <<0, var1, 0>>

\* CSurfaceMovement::SetFourier
SetFourier(VC, i, ResetDef) ==
  LET base == IF ResetRequested(i, ResetDef) THEN ResetVarCoord(VC) ELSE VC
  IN [v \in Vertices |-> AddVarCoord(base[v], FourierDelta(i, v))]


(* ---------------------- SetSurface_Deformation ------------------------- *)

AnalyticKinds == {"ROTATION", "DISPLACEMENT", "HICKS_HENNE", "COSINE_BUMP", "FOURIER"}

\* the design variables a configuration may hold: kind, value, parameters
DVChoices ==
  { [Kind |-> "ROTATION", Value |-> th, Param |-> <<0, 0, 0, 0, 0, Scale>>] : th \in {90, 180} }
  \cup { [Kind |-> "DISPLACEMENT", Value |-> Scale, Param |-> p] :
           p \in { <<Scale, 0, 0, 0, 0, 0>>, <<0, Scale, 0, 0, 0, 0>> } }
  \cup { [Kind |-> "HICKS_HENNE", Value |-> Scale, Param |-> <<f, Scale \div 2, 0, 0, 0, 0>>] :
           f \in {YES, 2} }
  \cup { [Kind |-> "COSINE_BUMP", Value |-> Scale,
          Param |-> <<2, -(Scale \div 2), Scale, 0, 0, 0>>] }
  \cup { [Kind |-> "FOURIER", Value |-> Scale, Param |-> <<2, Scale, 0, 0, 0, 0>>] }

\* the value the third component of SetHicksHenne's local VarCoord_ may hold
JunkValues == IF nDim = 3 THEN {0, Scale} ELSE {0}

Call(i, ResetDef) == [iDV |-> i, ResetDef |-> ResetDef]

SurfInit ==
  /\ nDim \in {2, 3}
  /\ nDV \in 1..MaxDV
  /\ \E cfg \in [0..(nDV - 1) -> DVChoices] :
       /\ Design_Variable = [i \in 0..(nDV - 1) |-> cfg[i].Kind]
       /\ DV_Value = [i \in 0..(nDV - 1) |-> cfg[i].Value]
       /\ ParamDV = [i \in 0..(nDV - 1) |-> cfg[i].Param]
  /\ \E s \in {0, Stale} :
       VarCoord = [v \in Vertices |-> [d \in 1..3 |-> IF d <= nDim THEN s ELSE 0]]
  /\ pc = "idle"
  /\ iDV = 0
  /\ applied = <<>>

\* the host calls SetDisplacement itself, for any design variable of that kind
CallSetDisplacement ==
  /\ pc = "idle"
  /\ Len(applied) < MaxCalls
  /\ \E i \in 0..(nDV - 1), ResetDef \in BOOLEAN :
       /\ Design_Variable[i] = "DISPLACEMENT"
       /\ VarCoord' = SetDisplacement(VarCoord, i, ResetDef)
       /\ applied' = Append(applied, Call(i, ResetDef))
  /\ UNCHANGED notSurf
  /\ UNCHANGED <<nDim, nDV, Design_Variable, DV_Value, ParamDV, pc, iDV>>

\* SetSurface_Deformation enters its branch of the analytic 2D deformations
EnterAnalytic ==
  /\ pc = "idle"
  /\ applied = <<>>
  /\ Design_Variable[0] \in AnalyticKinds
  /\ pc' = "rigid"
  /\ iDV' = 0
  /\ UNCHANGED notSurf
  /\ UNCHANGED <<nDim, nDV, Design_Variable, DV_Value, ParamDV, VarCoord, applied>>

\* a faulty variant: the first switch falls through to every kind
FirstLoopApplies_Any(kind) == kind \in AnalyticKinds

\* the cases of the switch of the first loop
FirstLoopApplies(kind) == kind \in {"ROTATION", "DISPLACEMENT"}

\* the cases of the switch of the second loop
SecondLoopApplies(kind) == kind \in {"HICKS_HENNE", "COSINE_BUMP", "FOURIER"}

\* the routine a case of either switch calls, with ResetDef = false
ApplyDesignVariable(VC, i, junk) ==
  CASE Design_Variable[i] = "ROTATION" -> SetRotation(VC, i, FALSE)
    [] Design_Variable[i] = "DISPLACEMENT" -> SetDisplacement(VC, i, FALSE)
    [] Design_Variable[i] = "HICKS_HENNE" -> SetHicksHenne(VC, i, FALSE, junk)
    [] Design_Variable[i] = "COSINE_BUMP" -> SetCosBump(VC, i, FALSE)
    [] Design_Variable[i] = "FOURIER" -> SetFourier(VC, i, FALSE)

\* first loop, a kind the switch has a case for
RigidApply ==
  /\ pc = "rigid"
  /\ iDV < nDV
  /\ FirstLoopApplies(Design_Variable[iDV])
  /\ \E junk \in JunkValues : VarCoord' = ApplyDesignVariable(VarCoord, iDV, junk)
  /\ applied' = Append(applied, Call(iDV, FALSE))
  /\ iDV' = iDV + 1
  /\ UNCHANGED notSurf
  /\ UNCHANGED <<nDim, nDV, Design_Variable, DV_Value, ParamDV, pc>>

\* first loop, any other kind: the switch has no case for it
RigidSkip ==
  /\ pc = "rigid"
  /\ iDV < nDV
  /\ ~FirstLoopApplies(Design_Variable[iDV])
  /\ iDV' = iDV + 1
  /\ UNCHANGED notSurf
  /\ UNCHANGED <<nDim, nDV, Design_Variable, DV_Value, ParamDV, VarCoord, pc, applied>>

\* the first loop ends and the second starts
RigidDone ==
  /\ pc = "rigid"
  /\ iDV = nDV
  /\ pc' = "bump"
  /\ iDV' = 0
  /\ UNCHANGED notSurf
  /\ UNCHANGED <<nDim, nDV, Design_Variable, DV_Value, ParamDV, VarCoord, applied>>

\* second loop, a kind the switch has a case for
BumpApply ==
  /\ pc = "bump"
  /\ iDV < nDV
  /\ SecondLoopApplies(Design_Variable[iDV])
  /\ \E junk \in JunkValues : VarCoord' = ApplyDesignVariable(VarCoord, iDV, junk)
  /\ applied' = Append(applied, Call(iDV, FALSE))
  /\ iDV' = iDV + 1
  /\ UNCHANGED notSurf
  /\ UNCHANGED <<nDim, nDV, Design_Variable, DV_Value, ParamDV, pc>>

\* second loop, any other kind
BumpSkip ==
  /\ pc = "bump"
  /\ iDV < nDV
  /\ ~SecondLoopApplies(Design_Variable[iDV])
  /\ iDV' = iDV + 1
  /\ UNCHANGED notSurf
  /\ UNCHANGED <<nDim, nDV, Design_Variable, DV_Value, ParamDV, VarCoord, pc, applied>>

\* the second loop ends: SetSurface_Deformation returns
BumpDone ==
  /\ pc = "bump"
  /\ iDV = nDV
  /\ pc' = "done"
  /\ UNCHANGED notSurf
  /\ UNCHANGED <<nDim, nDV, Design_Variable, DV_Value, ParamDV, VarCoord, iDV, applied>>

SurfNext ==
  \/ CallSetDisplacement
  \/ EnterAnalytic
  \/ RigidApply
  \/ RigidSkip
  \/ RigidDone
  \/ BumpApply
  \/ BumpSkip
  \/ BumpDone


(* ============================ Check_Grid =============================== *)
(* Areas are stored doubled and volumes six-fold, so that the measures of   *)
(* elements with integer corners are integers; EPS is far below one unit,   *)
(* so "measure >= -EPS" is "measure >= 0" on them.                          *)


\* most elements of a mesh, all ranks together
MaxElem == 2

\* stands for the 1E22 the minima start from (and -1E22 the maxima)
LargeMeasure == 1000000

MASTER_NODE == 0

\* the ranks of a distributed run, and of a serial one
Ranks == IF HAVE_MPI THEN {0, 1} ELSE {MASTER_NODE}

\* nNodes by VTK type, as Check_Grid sets it
nNodesOf(t) ==
  CASE t = "TRIANGLE" -> 3
    [] t = "RECTANGLE" -> 4
    [] t = "TETRAHEDRON" -> 4
    [] t = "PYRAMID" -> 5
    [] t = "WEDGE" -> 6
    [] t = "HEXAHEDRON" -> 8

\* a well-oriented element of each type, corners in the order of the mesh file
ReferenceCorners(t) ==
  CASE t = "TRIANGLE" -> << <<0, 0, 0>>, <<1, 0, 0>>, <<0, 1, 0>> >>
    [] t = "RECTANGLE" -> << <<0, 0, 0>>, <<1, 0, 0>>, <<1, 1, 0>>, <<0, 1, 0>> >>
    [] t = "TETRAHEDRON" -> << <<0, 0, 0>>, <<1, 0, 0>>, <<0, 1, 0>>, <<0, 0, 1>> >>
    [] t = "PYRAMID" -> << <<0, 0, 0>>, <<1, 0, 0>>, <<1, 1, 0>>, <<0, 1, 0>>, <<0, 0, 1>> >>
    [] t = "WEDGE" -> << <<0, 0, 0>>, <<0, 1, 0>>, <<1, 0, 0>>,
                         <<0, 0, 1>>, <<0, 1, 1>>, <<1, 0, 1>> >>
    [] t = "HEXAHEDRON" -> << <<0, 0, 0>>, <<1, 0, 0>>, <<1, 1, 0>>, <<0, 1, 0>>,
                              <<0, 0, 1>>, <<1, 0, 1>>, <<1, 1, 1>>, <<0, 1, 1>> >>

ElemTypes(dim) == IF dim = 2 THEN {"TRIANGLE", "RECTANGLE"}
                  ELSE {"TETRAHEDRON", "PYRAMID", "WEDGE", "HEXAHEDRON"}

\* CoordCorners, the array Check_Grid loads for element e of rank r
CoordCornersOf(r, e) == [k \in 1..Len(e.Node) |-> node[r][e.Node[k]]]

\* CVolumetricMovement::GetTriangle_Area (doubled)
GetTriangle_Area(C) ==
  LET a == [d \in 1..2 |-> C[1][d] - C[3][d]]
      b == [d \in 1..2 |-> C[2][d] - C[3][d]]
  IN Abs(a[1] * b[2] - a[2] * b[1])

\* CVolumetricMovement::GetRectangle_Area (doubled): triangles 0-1-2 and 0-2-3
GetRectangle_Area(C) ==
  LET a1 == [d \in 1..2 |-> C[1][d] - C[3][d]]
      b1 == [d \in 1..2 |-> C[2][d] - C[3][d]]
      a2 == [d \in 1..2 |-> C[1][d] - C[4][d]]
      b2 == [d \in 1..2 |-> C[3][d] - C[4][d]]
  IN Abs(a1[1] * b1[2] - a1[2] * b1[1]) + Abs(a2[1] * b2[2] - a2[2] * b2[1])

\* the scalar triple product of the edges from corner i to corners j, k, l
\* (six times the volume of the tetrahedron), corners counted from 0
TripleProduct(C, i, j, k, l) ==
  LET r1 == [d \in 1..3 |-> C[j + 1][d] - C[i + 1][d]]
      r2 == [d \in 1..3 |-> C[k + 1][d] - C[i + 1][d]]
      r3 == [d \in 1..3 |-> C[l + 1][d] - C[i + 1][d]]
  IN (r1[2] * r2[3] - r1[3] * r2[2]) * r3[1]
     + (r1[3] * r2[1] - r1[1] * r2[3]) * r3[2]
     + (r1[1] * r2[2] - r1[2] * r2[1]) * r3[3]

\* CVolumetricMovement::GetTetra_Volume (six-fold)
GetTetra_Volume(C) == TripleProduct(C, 0, 1, 2, 3)

\* CVolumetricMovement::GetPyram_Volume (six-fold)
GetPyram_Volume(C) == TripleProduct(C, 0, 1, 2, 4) + TripleProduct(C, 0, 2, 3, 4)

\* CVolumetricMovement::GetWedge_Volume (six-fold)
GetWedge_Volume(C) ==
  TripleProduct(C, 0, 2, 1, 5) + TripleProduct(C, 0, 5, 1, 4) + TripleProduct(C, 0, 5, 4, 3)

\* CVolumetricMovement::GetHexa_Volume (six-fold)
GetHexa_Volume(C) ==
  TripleProduct(C, 0, 1, 2, 5) + TripleProduct(C, 0, 2, 7, 5) + TripleProduct(C, 0, 2, 3, 7)
  + TripleProduct(C, 0, 5, 7, 4) + TripleProduct(C, 2, 7, 5, 6)

\* the measure Check_Grid computes for an element of nNodes corners
ElemMeasure(dim, nNodes, C) ==
  IF dim = 2
    THEN (IF nNodes = 3 THEN GetTriangle_Area(C) ELSE GetRectangle_Area(C))
    ELSE CASE nNodes = 4 -> GetTetra_Volume(C)
           [] nNodes = 5 -> GetPyram_Volume(C)
           [] nNodes = 6 -> GetWedge_Volume(C)
           [] nNodes = 8 -> GetHexa_Volume(C)

\* RightVol of Check_Grid: the measure is not below -EPS
RightVol(measure) == measure >= 0

\* the element loop of Check_Grid on rank r, from element i on:
\* [Counter, Min, Max] of the measures
RECURSIVE ElemLoop(_, _, _)
ElemLoop(r, i, acc) ==
  IF i > Len(elem[r]) THEN acc
  ELSE LET e == elem[r][i]
           m == ElemMeasure(nDim, nNodesOf(e.VTK_Type), CoordCornersOf(r, e))
       IN ElemLoop(r, i + 1,
                   [Counter |-> IF RightVol(m) THEN acc.Counter ELSE acc.Counter + 1,
                    Min |-> Min2(acc.Min, m),
                    Max |-> Max2(acc.Max, m)])

\* the sum of the values f takes on S
RECURSIVE SumOver(_, _)
SumOver(f, S) == IF S = {} THEN 0
                 ELSE LET x == CHOOSE y \in S : TRUE IN f[x] + SumOver(f, S \ {x})

\* the least and the greatest value f takes on S
MinOver(f, S) == CHOOSE m \in {f[x] : x \in S} : \A x \in S : m <= f[x]

MaxOver(f, S) == CHOOSE m \in {f[x] : x \in S} : \A x \in S : m >= f[x]

\* sequences over S of at most n entries
SeqsUpTo(S, n) == UNION {[1..k -> S] : k \in 0..n}

\* the point ids of element i of a rank, corners in file order
FileNodes(t, i) == [k \in 1..nNodesOf(t) |-> (i - 1) * 8 + (k - 1)]

\* seq with entries a and b exchanged
SwapEntries(seq, a, b) ==
  [k \in 1..Len(seq) |-> IF k = a THEN seq[b] ELSE IF k = b THEN seq[a] ELSE seq[k]]

\* the meshes of the model: the ranks own up to MaxElem well-oriented elements
\* between them, side by side, and at most one element of the mesh has two of
\* its corner ids swapped
GridInit ==
  /\ nDim \in {2, 3}
  /\ HAVE_MPI \in BOOLEAN
  /\ \E types \in [Ranks -> SeqsUpTo(ElemTypes(nDim), MaxElem)] :
       \E sw \in {<<>>} \cup
                 {<<r, i, a, b>> : r \in Ranks, i \in 1..MaxElem, a \in 1..8, b \in 1..8} :
         /\ SumOver([r \in Ranks |-> Len(types[r])], Ranks) <= MaxElem
         /\ sw # <<>> => /\ sw[2] <= Len(types[sw[1]])
                         /\ sw[3] < sw[4]
                         /\ sw[4] <= nNodesOf(types[sw[1]][sw[2]])
         /\ elem = [r \in Ranks |->
                      [i \in 1..Len(types[r]) |->
                         [VTK_Type |-> types[r][i],
                          Node |-> IF sw # <<>> /\ sw[1] = r /\ sw[2] = i
                                     THEN SwapEntries(FileNodes(types[r][i], i), sw[3], sw[4])
                                     ELSE FileNodes(types[r][i], i)]]]
         /\ node = [r \in Ranks |->
                      [id \in 0..(8 * Len(types[r]) - 1) |->
                         LET i == (id \div 8) + 1
                             k == (id % 8) + 1
                             ref == ReferenceCorners(types[r][i])
                         IN IF k <= Len(ref)
                              THEN <<ref[k][1] + 2 * (i - 1), ref[k][2] + 2 * r, ref[k][3]>>
                              ELSE Zero3]]
         /\ inverted = IF sw = <<>> THEN <<>> ELSE <<sw[1], sw[2]>>
  /\ cgpc = [r \in Ranks |-> "start"]
  /\ ElemCounter = [r \in Ranks |-> 0]
  /\ MinArea = [r \in Ranks |-> LargeMeasure]
  /\ MaxArea = [r \in Ranks |-> -LargeMeasure]
  /\ MinVolume = [r \in Ranks |-> LargeMeasure]
  /\ MaxVolume = [r \in Ranks |-> -LargeMeasure]
  /\ SendBuf = [r \in Ranks |-> [ElemCounter_Local |-> 0, MaxVolume_Local |-> 0,
                                  MinVolume_Local |-> 0]]
  /\ cgReturn = [r \in Ranks |-> 0]

\* Check_Grid on rank r up to the first collective: the element loop, and
\* under HAVE_MPI the copies into the *_Local send buffers
CheckGrid_Loop(r) ==
  /\ cgpc[r] = "start"
  /\ LET acc == ElemLoop(r, 1, [Counter |-> 0, Min |-> LargeMeasure, Max |-> -LargeMeasure])
         minV == IF nDim = 3 THEN acc.Min ELSE MinVolume[r]
         maxV == IF nDim = 3 THEN acc.Max ELSE MaxVolume[r]
     IN /\ MinArea' = [MinArea EXCEPT ![r] = IF nDim = 2 THEN acc.Min ELSE @]
        /\ MaxArea' = [MaxArea EXCEPT ![r] = IF nDim = 2 THEN acc.Max ELSE @]
        /\ IF HAVE_MPI
             THEN /\ SendBuf' = [SendBuf EXCEPT ![r] = [ElemCounter_Local |-> acc.Counter,
                                                        MaxVolume_Local |-> maxV,
                                                        MinVolume_Local |-> minV]]
                  /\ ElemCounter' = [ElemCounter EXCEPT ![r] = 0]
                  /\ MaxVolume' = [MaxVolume EXCEPT ![r] = 0]
                  /\ MinVolume' = [MinVolume EXCEPT ![r] = 0]
                  /\ cgpc' = [cgpc EXCEPT ![r] = "sum"]
             ELSE /\ ElemCounter' = [ElemCounter EXCEPT ![r] = acc.Counter]
                  /\ MaxVolume' = [MaxVolume EXCEPT ![r] = maxV]
                  /\ MinVolume' = [MinVolume EXCEPT ![r] = minV]
                  /\ cgpc' = [cgpc EXCEPT ![r] = "return"]
                  /\ UNCHANGED SendBuf
  /\ UNCHANGED notGrid
  /\ UNCHANGED <<nDim, HAVE_MPI, elem, node, inverted, cgReturn>>

\* MPI_Allreduce(&ElemCounter_Local, &ElemCounter, MPI_SUM): completes once
\* every rank has entered it
Allreduce_ElemCounter ==
  /\ HAVE_MPI
  /\ \A r \in Ranks : cgpc[r] = "sum"
  /\ ElemCounter' = [r \in Ranks |->
                       SumOver([q \in Ranks |-> SendBuf[q].ElemCounter_Local], Ranks)]
  /\ cgpc' = [r \in Ranks |-> "max"]
  /\ UNCHANGED notGrid
  /\ UNCHANGED <<nDim, HAVE_MPI, elem, node, inverted, MinArea, MaxArea, MinVolume,
                 MaxVolume, SendBuf, cgReturn>>

\* MPI_Allreduce(&MaxVolume_Local, &MaxVolume, MPI_MAX)
Allreduce_MaxVolume ==
  /\ HAVE_MPI
  /\ \A r \in Ranks : cgpc[r] = "max"
  /\ MaxVolume' = [r \in Ranks |->
                     MaxOver([q \in Ranks |-> SendBuf[q].MaxVolume_Local], Ranks)]
  /\ cgpc' = [r \in Ranks |-> "min"]
  /\ UNCHANGED notGrid
  /\ UNCHANGED <<nDim, HAVE_MPI, elem, node, inverted, ElemCounter, MinArea, MaxArea,
                 MinVolume, SendBuf, cgReturn>>

\* MPI_Allreduce(&MinVolume_Local, &MinVolume, MPI_MIN)
Allreduce_MinVolume ==
  /\ HAVE_MPI
  /\ \A r \in Ranks : cgpc[r] = "min"
  /\ MinVolume' = [r \in Ranks |->
                     MinOver([q \in Ranks |-> SendBuf[q].MinVolume_Local], Ranks)]
  /\ cgpc' = [r \in Ranks |-> "return"]
  /\ UNCHANGED notGrid
  /\ UNCHANGED <<nDim, HAVE_MPI, elem, node, inverted, ElemCounter, MinArea, MaxArea,
                 MaxVolume, SendBuf, cgReturn>>

\* the value Check_Grid returns on rank r
ReturnedMeasure(r) == IF nDim = 2 THEN MinArea[r] ELSE MinVolume[r]

\* the end of Check_Grid on rank r: the message of the master, the return
CheckGrid_Return(r) ==
  /\ cgpc[r] = "return"
  /\ cgReturn' = [cgReturn EXCEPT ![r] = ReturnedMeasure(r)]
  /\ cgpc' = [cgpc EXCEPT ![r] = "done"]
  /\ UNCHANGED notGrid
  /\ UNCHANGED <<nDim, HAVE_MPI, elem, node, inverted, ElemCounter, MinArea, MaxArea,
                 MinVolume, MaxVolume, SendBuf>>

GridNext ==
  \/ \E r \in Ranks : CheckGrid_Loop(r)
  \/ Allreduce_ElemCounter
  \/ Allreduce_MaxVolume
  \/ Allreduce_MinVolume
  \/ \E r \in Ranks : CheckGrid_Return(r)

(* ======================= SetVolume_Deformation ========================= *)
(* Lengths of this part are whole multiples of 1/VolUnit-th of the unit, so  *)
(* that VarCoord * (1/nNonlinearIter) is exact for every increment count.    *)


\* most increments a configuration asks for (GetGridDef_Nonlinear_Iter)
MaxNonlinearIter == 2

RECURSIVE Factorial(_)
Factorial(n) == IF n <= 1 THEN 1 ELSE n * Factorial(n - 1)

\* the unit length: every increment count up to the bound divides it
VolUnit == Factorial(MaxNonlinearIter)

KindBCs == {"EULER_WALL", "SYMMETRY_PLANE", "SEND_RECEIVE", "NEARFIELD_BOUNDARY"}

VolMarkers == 1..2

VolPoints == 0..4

\* the coordinates of the points before the deformation: point 0 lies on both
\* markers, point 1 on marker 1, point 2 on marker 2, points 3 and 4 inside
InitialCoord ==
  [p \in VolPoints |->
     CASE p = 0 -> <<0, 0, 0>>
       [] p = 1 -> <<2 * VolUnit, 0, 0>>
       [] p = 2 -> <<0, VolUnit, 3 * VolUnit>>
       [] p = 3 -> <<3 * VolUnit, 0, 0>>
       [] p = 4 -> <<VolUnit, VolUnit, 0>>]

\* geometry->vertex[iMarker][iVertex]: GetNode() and GetVarCoord()
BoundaryVertex ==
  << << [Node |-> 0, VarCoord |-> <<VolUnit, 0, 0>>],
        [Node |-> 1, VarCoord |-> <<2 * VolUnit, VolUnit, VolUnit>>] >>,
     << [Node |-> 0, VarCoord |-> <<VolUnit, 0, 0>>],
        [Node |-> 2, VarCoord |-> <<VolUnit, VolUnit, VolUnit>>] >> >>

\* config->GetHold_GridFixed_Coord(): x, y, z minima, then maxima
Hold_GridFixed_Coord == <<-VolUnit, -VolUnit, -VolUnit, VolUnit, VolUnit, VolUnit>>

\* every (iMarker, iVertex), in the order the marker loops visit them
AllVertices ==
  << <<1, 1>>, <<1, 2>>, <<2, 1>>, <<2, 2>> >>

TotalIndices == 0..(Cardinality(VolPoints) * nDim - 1)

\* LinSysRes[i] = LinSysSol[i] = val; StiffMatrix.DeleteValsRowi(i)
SetRow(sys, i, val) ==
  [Res |-> [sys.Res EXCEPT ![i] = val],
   Sol |-> [sys.Sol EXCEPT ![i] = val],
   Del |-> [sys.Del EXCEPT ![i] = TRUE]]

\* the rows of all nDim components of a point, from component d on
RECURSIVE SetPointRows(_, _, _, _)
SetPointRows(sys, iPoint, d, val) ==
  IF d >= nDim THEN sys
  ELSE SetPointRows(SetRow(sys, iPoint * nDim + d, val[d + 1]), iPoint, d + 1, val)

\* first loop of SetBoundaryDisplacements: zero displacement on every marker
\* that is neither a symmetry plane nor a send-receive boundary
RECURSIVE ZeroNonSymmetric(_, _)
ZeroNonSymmetric(sys, j) ==
  IF j > Len(AllVertices) THEN sys
  ELSE LET m == AllVertices[j][1]
           vx == BoundaryVertex[m][AllVertices[j][2]]
           next == IF config.Marker_All_KindBC[m] # "SYMMETRY_PLANE"
                        /\ config.Marker_All_KindBC[m] # "SEND_RECEIVE"
                     THEN SetPointRows(sys, vx.Node, 0, Zero3)
                     ELSE sys
       IN IF DOMAIN next = DOMAIN sys THEN ZeroNonSymmetric(next, j + 1) ELSE next

\* MeanCoord[d]^2 of a marker: the sum over its vertices of the squared
\* coordinate (the code compares the square roots)
MeanCoord2(C, m, d) ==
  LET sq(k) == C[BoundaryVertex[m][k].Node][d] * C[BoundaryVertex[m][k].Node][d]
  IN SumOver([k \in 1..Len(BoundaryVertex[m]) |-> sq(k)], 1..Len(BoundaryVertex[m]))

\* axis of the symmetry loop: three ifs in a row, so the last that holds wins
SymmetryAxis(C, m) ==
  LET M == [d \in 0..2 |-> MeanCoord2(C, m, d + 1)]
      a0 == IF M[0] <= M[1] /\ M[0] <= M[2] THEN 0 ELSE 0
      a1 == IF M[1] <= M[0] /\ M[1] <= M[2] THEN 1 ELSE a0
      a2 == IF M[2] <= M[0] /\ M[2] <= M[1] THEN 2 ELSE a1
  IN a2

\* the guard of the symmetry loop
SymmetryLoopRuns(m) == config.Marker_All_KindBC[m] = "SYMMETRY_PLANE" /\ nDim = 3

\* second loop: zero displacement along the axis of each symmetry plane
RECURSIVE ZeroSymmetryNormal(_, _, _)
ZeroSymmetryNormal(sys, C, j) ==
  IF j > Len(AllVertices) THEN sys
  ELSE LET m == AllVertices[j][1]
           vx == BoundaryVertex[m][AllVertices[j][2]]
           next == IF SymmetryLoopRuns(m)
                     THEN SetRow(sys, vx.Node * nDim + SymmetryAxis(C, m), 0)
                     ELSE sys
       IN IF DOMAIN next = DOMAIN sys THEN ZeroSymmetryNormal(next, C, j + 1) ELSE next

\* the test of the third loop: the marker carries the prescribed displacement
MarkerDeforms(m) ==
  \/ config.Marker_All_Moving[m] = YES /\ config.Kind_SU2 = "SU2_CFD"
  \/ config.Marker_All_DV[m] = YES /\ config.Kind_SU2 = "SU2_DEF"

\* VarCoord[iDim] * VarIncrement with VarIncrement = 1/nNonlinearIter
PrescribedIncrement(vc) == [d \in 1..3 |-> vc[d] \div config.GridDef_Nonlinear_Iter]

\* third loop: the known displacements of the moving or design-variable markers
RECURSIVE SetKnownDisplacements(_, _)
SetKnownDisplacements(sys, j) ==
  IF j > Len(AllVertices) THEN sys
  ELSE LET m == AllVertices[j][1]
           vx == BoundaryVertex[m][AllVertices[j][2]]
           next == IF MarkerDeforms(m)
                     THEN SetPointRows(sys, vx.Node, 0, PrescribedIncrement(vx.VarCoord))
                     ELSE sys
       IN IF DOMAIN next = DOMAIN sys THEN SetKnownDisplacements(next, j + 1) ELSE next

\* fourth loop: the near-field boundary does not move
RECURSIVE ZeroNearfield(_, _)
ZeroNearfield(sys, j) ==
  IF j > Len(AllVertices) THEN sys
  ELSE LET m == AllVertices[j][1]
           vx == BoundaryVertex[m][AllVertices[j][2]]
           next == IF config.Marker_All_KindBC[m] = "NEARFIELD_BOUNDARY"
                     THEN SetPointRows(sys, vx.Node, 0, Zero3)
                     ELSE sys
       IN IF DOMAIN next = DOMAIN sys THEN ZeroNearfield(next, j + 1) ELSE next

\* CVolumetricMovement::SetBoundaryDisplacements
SetBoundaryDisplacements(sys, C) ==
  ZeroNearfield(SetKnownDisplacements(ZeroSymmetryNormal(ZeroNonSymmetric(sys, 1), C, 1), 1), 1)

\* the test of SetDomainDisplacements on one coordinate of one point
OutsideHoldBox(C, iPoint, d) ==
  \/ C[iPoint][d + 1] < Hold_GridFixed_Coord[d + 1]
  \/ C[iPoint][d + 1] > Hold_GridFixed_Coord[d + 4]

\* CVolumetricMovement::SetDomainDisplacements, from row i on
RECURSIVE SetDomainDisplacements(_, _, _)
SetDomainDisplacements(sys, C, i) ==
  IF i \notin TotalIndices THEN sys
  ELSE LET next == IF OutsideHoldBox(C, i \div nDim, i % nDim) THEN SetRow(sys, i, 0) ELSE sys
       IN IF DOMAIN next = DOMAIN sys THEN SetDomainDisplacements(next, C, i + 1) ELSE next

\* the linear system as the three routines above pass it on
LinSys == [Res |-> LinSysRes, Sol |-> LinSysSol, Del |-> RowDeleted]

\* the configurations of the model: two markers of any kind, moving or not,
\* carrying design variables or not
VolInit ==
  /\ nDim \in {2, 3}
  /\ config \in [Kind_SU2 : {"SU2_CFD", "SU2_DEF"},
                 GridDef_Nonlinear_Iter : 1..MaxNonlinearIter,
                 Hold_GridFixed : BOOLEAN,
                 Marker_All_KindBC : [VolMarkers -> KindBCs],
                 Marker_All_Moving : [VolMarkers -> {NO, YES}],
                 Marker_All_DV : [VolMarkers -> {NO, YES}]]
  /\ Coord = InitialCoord
  /\ LinSysRes = [i \in TotalIndices |-> 0]
  /\ LinSysSol = [i \in TotalIndices |-> 0]
  /\ RowDeleted = [i \in TotalIndices |-> FALSE]
  /\ iNonlinear_Iter = 0
  /\ vpc = "assemble"

\* the head of an increment: the three SetValZero and the assembly of the
\* stiffness matrix, which has every row again
Assemble ==
  /\ vpc = "assemble"
  /\ iNonlinear_Iter < config.GridDef_Nonlinear_Iter
  /\ LinSysRes' = [i \in TotalIndices |-> 0]
  /\ LinSysSol' = [i \in TotalIndices |-> 0]
  /\ RowDeleted' = [i \in TotalIndices |-> FALSE]
  /\ vpc' = "boundary"
  /\ UNCHANGED notVol
  /\ UNCHANGED <<nDim, config, Coord, iNonlinear_Iter>>

\* SetBoundaryDisplacements(geometry, config)
CallSetBoundaryDisplacements ==
  /\ vpc = "boundary"
  /\ LET sys == SetBoundaryDisplacements(LinSys, Coord)
     IN /\ LinSysRes' = sys.Res
        /\ LinSysSol' = sys.Sol
        /\ RowDeleted' = sys.Del
  /\ vpc' = "domain"
  /\ UNCHANGED notVol
  /\ UNCHANGED <<nDim, config, Coord, iNonlinear_Iter>>

\* if (config->GetHold_GridFixed()) SetDomainDisplacements(geometry, config)
CallSetDomainDisplacements ==
  /\ vpc = "domain"
  /\ config.Hold_GridFixed
  /\ LET sys == SetDomainDisplacements(LinSys, Coord, 0)
     IN /\ LinSysRes' = sys.Res
        /\ LinSysSol' = sys.Sol
        /\ RowDeleted' = sys.Del
  /\ vpc' = "solve"
  /\ UNCHANGED notVol
  /\ UNCHANGED <<nDim, config, Coord, iNonlinear_Iter>>

\* the grid is not held fixed
SkipSetDomainDisplacements ==
  /\ vpc = "domain"
  /\ ~config.Hold_GridFixed
  /\ vpc' = "solve"
  /\ UNCHANGED notVol
  /\ UNCHANGED <<nDim, config, Coord, LinSysRes, LinSysSol, RowDeleted, iNonlinear_Iter>>

\* the solution of the system: a deleted row is the equation x = b, and the
\* other rows get whatever the elasticity equations give
SolveLinearSystem(free) ==
  [i \in TotalIndices |-> IF RowDeleted[i] THEN LinSysRes[i] ELSE free]

\* the FGMRES solve of the increment
Solve ==
  /\ vpc = "solve"
  /\ \E free \in {0, VolUnit} : LinSysSol' = SolveLinearSystem(free)
  /\ vpc' = "update"
  /\ UNCHANGED notVol
  /\ UNCHANGED <<nDim, config, Coord, LinSysRes, RowDeleted, iNonlinear_Iter>>

\* UpdateGridCoord: every point moves by its part of the solution (the snap
\* of values below EPS*EPS to zero changes nothing on whole units)
UpdateGridCoord ==
  /\ vpc = "update"
  /\ Coord' = [p \in VolPoints |->
                 [d \in 1..3 |-> IF d <= nDim
                                   THEN Coord[p][d] + LinSysSol[p * nDim + d - 1]
                                   ELSE Coord[p][d]]]
  /\ iNonlinear_Iter' = iNonlinear_Iter + 1
  /\ vpc' = "assemble"
  /\ UNCHANGED notVol
  /\ UNCHANGED <<nDim, config, LinSysRes, LinSysSol, RowDeleted>>

VolNext ==
  \/ Assemble
  \/ CallSetBoundaryDisplacements
  \/ CallSetDomainDisplacements
  \/ SkipSetDomainDisplacements
  \/ Solve
  \/ UpdateGridCoord

(* ========================== Rigid_Translation ========================== *)
(* Times and rates are whole numbers of their units.                        *)

\* most calls of Rigid_Translation in a run
MaxRigidCalls == 2

RigidPoints == 0..1

ZONE_0 == 0

Zones == {ZONE_0, 1}

\* config->GetTranslation_Rate_X/Y/Z(iZone)
Translation_Rate == [z \in Zones |-> IF z = ZONE_0 THEN <<1, -2, 3>> ELSE <<0, 2, -1>>]

\* the time steps the host configures: none, a half step, a full step
DeltaTs == 0..2

RigidInitialCoord == [p \in RigidPoints |-> IF p = 0 THEN <<0, 0, 0>> ELSE <<4, -1, 2>>]

\* deltaT: the configured step, or period/nTimeInstances in time-spectral mode
EffectiveDeltaT(cfg, deltaT) ==
  IF cfg.Unsteady_Simulation = "TIME_SPECTRAL"
    THEN cfg.TimeSpectral_Period \div cfg.nTimeInstances
    ELSE deltaT

\* the zone the rates and the origin are read from
EffectiveZone(cfg, z) == IF cfg.Unsteady_Simulation = "TIME_SPECTRAL" THEN ZONE_0 ELSE z

\* time_new
TimeNew(cfg, iter, dT) ==
  IF cfg.Adjoint THEN (cfg.nExtIter - iter - 1) * dT ELSE iter * dT

\* a faulty variant: every mode starts the movement from the zero position
TimeOld_FromZero(cfg, iter, dT) == 0

\* time_old
TimeOld(cfg, iter, dT) ==
  IF cfg.Adjoint
    THEN IF iter # 0 THEN ((cfg.nExtIter - iter - 1) + 1) * dT
                     ELSE TimeNew(cfg, iter, dT)
    ELSE IF cfg.Unsteady_Simulation = "TIME_SPECTRAL" THEN 0
         ELSE IF iter # 0 THEN (iter - 1) * dT
                          ELSE TimeNew(cfg, iter, dT)

\* deltaX of a call
DeltaX(cfg, z, iter, deltaT) ==
  LET dT == EffectiveDeltaT(cfg, deltaT)
      xDot == Translation_Rate[EffectiveZone(cfg, z)]
  IN [d \in 1..3 |-> xDot[d] * (TimeNew(cfg, iter, dT) - TimeOld(cfg, iter, dT))]

\* a faulty variant: the grid velocity is stored in the adjoint run too
NewGridVel_Always(cfg, z, old) ==
  [d \in 1..3 |-> IF d <= nDim THEN Translation_Rate[EffectiveZone(cfg, z)][d] ELSE old[d]]

\* the grid velocity of a node after a call: if (!adjoint) SetGridVel(iDim, xDot[iDim])
NewGridVel(cfg, z, old) ==
  [d \in 1..3 |-> IF d <= nDim /\ ~cfg.Adjoint
                    THEN Translation_Rate[EffectiveZone(cfg, z)][d]
                    ELSE old[d]]

\* the coordinates of the nodes after a call: the first nDim of them move
MovedCoord(C, dX) ==
  [p \in DOMAIN C |-> [d \in 1..3 |-> IF d <= nDim THEN C[p][d] + dX[d] ELSE C[p][d]]]

\* a faulty variant: the origins are moved in the x-y plane only
Translated_Planar(x, dX) == [d \in 1..3 |-> IF d <= 2 THEN x[d] + dX[d] ELSE x[d]]

\* a point moved by all of deltaX (the origins are moved so)
Translated(x, dX) == [d \in 1..3 |-> x[d] + dX[d]]

RigidInit ==
  /\ nDim \in {2, 3}
  /\ rconfig \in [Unsteady_Simulation : {"TIME_STEPPING", "TIME_SPECTRAL"},
                  Adjoint : BOOLEAN,
                  TimeSpectral_Period : {0, 1 + 1},
                  nTimeInstances : {1, 1 + 1},
                  nExtIter : {MaxRigidCalls + 1 + 1},
                  Length_Ref : {1, 1 + 1}]
  /\ iZone \in Zones
  /\ ExtIter \in 0..1
  /\ rCoord = RigidInitialCoord
  /\ GridVel = [p \in RigidPoints |-> <<Stale, Stale, Stale>>]
  /\ Motion_Origin = [z \in Zones |-> Zero3]
  /\ RefOriginMoment = Zero3
  /\ calls = <<>>

\* what the model keeps of a call: the routine, its inputs and the state it found
CallRecord(routine, deltaT) ==
  [routine |-> routine, iter |-> ExtIter, deltaT |-> deltaT,
   before |-> [Coord |-> rCoord, GridVel |-> GridVel,
               Motion_Origin |-> Motion_Origin, RefOriginMoment |-> RefOriginMoment]]

\* CVolumetricMovement::Rigid_Translation(geometry, config, iZone, iter), the
\* host having configured the time step deltaT
Rigid_Translation ==
  /\ Len(calls) < MaxRigidCalls
  /\ ExtIter < rconfig.nExtIter
  /\ \E deltaT \in DeltaTs :
       LET dX == DeltaX(rconfig, iZone, ExtIter, deltaT)
           z == EffectiveZone(rconfig, iZone)
       IN /\ rCoord' = MovedCoord(rCoord, dX)
          /\ GridVel' = [p \in RigidPoints |-> NewGridVel(rconfig, iZone, GridVel[p])]
          /\ Motion_Origin' = [Motion_Origin EXCEPT ![z] = Translated(@, dX)]
          /\ RefOriginMoment' = Translated(RefOriginMoment, dX)
          /\ calls' = Append(calls, CallRecord("TRANSLATION", deltaT))
  /\ ExtIter' = ExtIter + 1
  /\ UNCHANGED notRigid
  /\ UNCHANGED <<nDim, rconfig, iZone>>

\* config->GetPlunging_Omega_X/Y/Z(iZone)/GetOmega_Ref(), in degrees per unit
\* of time (the sines and cosines are taken of whole quarter turns)
Plunging_Omega == [z \in Zones |-> IF z = ZONE_0 THEN <<90, 90, 180>> ELSE <<180, 90, 90>>]

\* config->GetPlunging_Ampl_X/Y/Z(iZone)/Lref
Plunging_Ampl == [z \in Zones |-> IF z = ZONE_0 THEN <<1, 2, -1>> ELSE <<0, -1, 2>>]

\* deltaX of a call of Rigid_Plunging
PlungingDeltaX(cfg, z, iter, deltaT) ==
  LET dT == EffectiveDeltaT(cfg, deltaT)
      Omega == Plunging_Omega[EffectiveZone(cfg, z)]
      Ampl == Plunging_Ampl[EffectiveZone(cfg, z)]
  IN [d \in 1..3 |-> -Ampl[d] * (SinDeg(Omega[d] * TimeNew(cfg, iter, dT))
                                  - SinDeg(Omega[d] * TimeOld(cfg, iter, dT)))]

\* xDot of a call of Rigid_Plunging
PlungingXDot(cfg, z, iter, deltaT) ==
  LET dT == EffectiveDeltaT(cfg, deltaT)
      Omega == Plunging_Omega[EffectiveZone(cfg, z)]
      Ampl == Plunging_Ampl[EffectiveZone(cfg, z)]
  IN [d \in 1..3 |-> -Ampl[d] * Omega[d] * CosDeg(Omega[d] * TimeNew(cfg, iter, dT))]

\* the grid velocity of a node after Rigid_Plunging: xDot is added to it
PlungingGridVel(cfg, old, xDot) ==
  [d \in 1..3 |-> IF d <= nDim /\ ~cfg.Adjoint THEN old[d] + xDot[d] ELSE old[d]]

\* CVolumetricMovement::Rigid_Plunging(geometry, config, iZone, iter)
Rigid_Plunging ==
  /\ Len(calls) < MaxRigidCalls
  /\ ExtIter < rconfig.nExtIter
  /\ \E deltaT \in DeltaTs :
       LET dX == PlungingDeltaX(rconfig, iZone, ExtIter, deltaT)
           xDot == PlungingXDot(rconfig, iZone, ExtIter, deltaT)
           z == EffectiveZone(rconfig, iZone)
       IN /\ rCoord' = MovedCoord(rCoord, dX)
          /\ GridVel' = [p \in RigidPoints |-> PlungingGridVel(rconfig, GridVel[p], xDot)]
          /\ Motion_Origin' = [Motion_Origin EXCEPT ![z] = Translated(@, dX)]
          /\ RefOriginMoment' = Translated(RefOriginMoment, dX)
          /\ calls' = Append(calls, CallRecord("PLUNGING", deltaT))
  /\ ExtIter' = ExtIter + 1
  /\ UNCHANGED notRigid
  /\ UNCHANGED <<nDim, rconfig, iZone>>

\* config->GetRotation_Rate_X/Y/Z(iZone)/GetOmega_Ref(), in degrees per unit
\* of time
Rotation_Rate == [z \in Zones |-> IF z = ZONE_0 THEN <<0, 90, 90>> ELSE <<90, 0, 180>>]

\* dt of a call of Rigid_Rotation: reversed in the adjoint run, none at the
\* first direct iteration, period * iter / nTimeInstances in time-spectral mode
RotationDt(cfg, iter, deltaT) ==
  IF cfg.Unsteady_Simulation = "TIME_SPECTRAL"
    THEN (cfg.TimeSpectral_Period * iter) \div cfg.nTimeInstances
    ELSE IF cfg.Adjoint
           THEN IF iter = 0 THEN (cfg.nExtIter - 1) * deltaT ELSE -deltaT
           ELSE IF iter = 0 THEN 0 ELSE deltaT

\* rotMatrix of the angles Omega * dt about the x, y and z axes
RotMatrix(Omega, dt) ==
  LET cosTheta == CosDeg(Omega[1] * dt)
      sinTheta == SinDeg(Omega[1] * dt)
      cosPhi == CosDeg(Omega[2] * dt)
      sinPhi == SinDeg(Omega[2] * dt)
      cosPsi == CosDeg(Omega[3] * dt)
      sinPsi == SinDeg(Omega[3] * dt)
  IN << << cosPhi * cosPsi,
           sinTheta * sinPhi * cosPsi - cosTheta * sinPsi,
           cosTheta * sinPhi * cosPsi + sinTheta * sinPsi >>,
        << cosPhi * sinPsi,
           sinTheta * sinPhi * sinPsi + cosTheta * cosPsi,
           cosTheta * sinPhi * sinPsi - sinTheta * cosPsi >>,
        << -sinPhi, sinTheta * cosPhi, cosTheta * cosPhi >> >>

\* r: the position from the rotation center, its third component 0 in 2D
\* (r[iDim] = (Coord[iDim]-Center[iDim])/Lref, rounded down to the fixed point)
FromCenter(x, Center) ==
  [d \in 1..3 |-> IF d <= nDim THEN (x[d] - Center[d]) \div rconfig.Length_Ref ELSE 0]

\* rotCoord: the rotation matrix applied to r
RotCoord(rotMatrix, r) ==
  [i \in 1..3 |-> rotMatrix[i][1] * r[1] + rotMatrix[i][2] * r[2] + rotMatrix[i][3] * r[3]]

\* Omega x rotCoord
CrossProduct(Omega, x) ==
  << Omega[2] * x[3] - Omega[3] * x[2],
     Omega[3] * x[1] - Omega[1] * x[3],
     Omega[1] * x[2] - Omega[2] * x[1] >>

\* a faulty variant: the cross product replaces the velocity of the node
RotationGridVel_Overwrite(cfg, old, Omega, rotCoord) ==
  [d \in 1..3 |-> IF d <= nDim /\ ~cfg.Adjoint
                    THEN CrossProduct(Omega, rotCoord)[d]
                    ELSE old[d]]

\* the grid velocity of a node after Rigid_Rotation: newGridVel is the old
\* velocity plus the cross product, stored if (!adjoint)
RotationGridVel(cfg, old, Omega, rotCoord) ==
  [d \in 1..3 |-> IF d <= nDim /\ ~cfg.Adjoint
                    THEN old[d] + CrossProduct(Omega, rotCoord)[d]
                    ELSE old[d]]

\* the coordinates of a node after Rigid_Rotation: rotCoord + Center
RotatedCoord(x, Center, rotMatrix) ==
  LET rot == RotCoord(rotMatrix, FromCenter(x, Center))
  IN [d \in 1..3 |-> IF d <= nDim THEN rot[d] + Center[d] ELSE x[d]]

\* the moment origin of a monitored marker after Rigid_Rotation: all three
\* components are set
RotatedOrigin(x, Center, rotMatrix) ==
  LET rot == RotCoord(rotMatrix, FromCenter(x, Center))
  IN [d \in 1..3 |-> Center[d] + rot[d]]

\* CVolumetricMovement::Rigid_Rotation(geometry, config, iZone, iter)
Rigid_Rotation ==
  /\ Len(calls) < MaxRigidCalls
  /\ ExtIter < rconfig.nExtIter
  /\ \E deltaT \in DeltaTs :
       LET z == EffectiveZone(rconfig, iZone)
           Center == Motion_Origin[z]
           Omega == Rotation_Rate[z]
           rotMatrix == RotMatrix(Omega, RotationDt(rconfig, ExtIter, deltaT))
       IN /\ rCoord' = [p \in RigidPoints |-> RotatedCoord(rCoord[p], Center, rotMatrix)]
          /\ GridVel' = [p \in RigidPoints |->
                           RotationGridVel(rconfig, GridVel[p], Omega,
                                           RotCoord(rotMatrix, FromCenter(rCoord[p], Center)))]
          /\ RefOriginMoment' = RotatedOrigin(RefOriginMoment, Center, rotMatrix)
          /\ calls' = Append(calls, CallRecord("ROTATION", deltaT))
  /\ ExtIter' = ExtIter + 1
  /\ UNCHANGED notRigid
  /\ UNCHANGED <<nDim, rconfig, iZone, Motion_Origin>>

RigidNext ==
  \/ Rigid_Translation
  \/ Rigid_Plunging
  \/ Rigid_Rotation

(* ============================ GetPointFFD ============================== *)
(* Lengths are whole numbers of half units: the corners of a 2D box lie at  *)
(* z = -0.5 and z = +0.5.                                                   *)

\* the largest coordinate of a point asked about
MaxPointCoord == 6

PointCoords == -2..MaxPointCoord

\* the corners of the axis-aligned box from lo to hi, in the order of
\* SetUnitCornerPoints
BoxCorners(lo, hi) ==
  [c \in 0..7 |->
     << IF c \in {1, 2, 5, 6} THEN hi[1] ELSE lo[1],
        IF c \in {2, 3, 6, 7} THEN hi[2] ELSE lo[2],
        IF c \in {4, 5, 6, 7} THEN hi[3] ELSE lo[3] >>]

\* the boxes of the runs: a cube and a box with three different sides
Boxes3D == {BoxCorners(<<0, 0, 0>>, <<4, 4, 4>>), BoxCorners(<<-1, 0, 1>>, <<3, 2, 5>>)}

\* in 2D the four corners of the plane are mirrored to z = -0.5 and z = +0.5
Boxes2D == {BoxCorners(<<0, 0, -1>>, <<4, 4, 1>>), BoxCorners(<<-1, 0, -1>>, <<3, 2, 1>>)}

\* unsigned short Index[5][7]: the corners of the five tetrahedra, the first
\* three repeated
Index ==
  << <<0, 1, 2, 5, 0, 1, 2>>,
     <<0, 2, 7, 5, 0, 2, 7>>,
     <<0, 2, 3, 7, 0, 2, 3>>,
     <<0, 5, 7, 4, 0, 5, 7>>,
     <<2, 7, 5, 6, 2, 7, 5>> >>

\* CGeometry::Point2Plane_Distance: the signed distance of Coord from the plane
\* through iCoord, jCoord and kCoord, here times the length of the normal
\* (jCoord - iCoord) x (kCoord - iCoord), which is positive for three corners
\* of a box: the sign of a product of two distances from one plane is kept
Point2Plane_Distance(C, iCoord, jCoord, kCoord) ==
  LET iVector == [d \in 1..3 |-> jCoord[d] - iCoord[d]]
      jVector == [d \in 1..3 |-> kCoord[d] - iCoord[d]]
      normal == << iVector[2] * jVector[3] - iVector[3] * jVector[2],
                   iVector[3] * jVector[1] - iVector[1] * jVector[3],
                   iVector[1] * jVector[2] - iVector[2] * jVector[1] >>
  IN normal[1] * (C[1] - iCoord[1]) + normal[2] * (C[2] - iCoord[2])
       + normal[3] * (C[3] - iCoord[3])

\* Coord of GetPointFFD: the first nDim coordinates of the node, then zeros
QueryCoord(x) == [d \in 1..3 |-> IF d <= nDim THEN x[d] ELSE 0]

\* the test of face jVar of tetrahedron iVar: Distance_Point * Distance_Vertex < 0
OppositeSides(corners, C, iVar, jVar) ==
  LET Corner(k) == corners[Index[iVar + 1][k + 1]]
      Distance_Point == Point2Plane_Distance(C, Corner(jVar + 1), Corner(jVar + 2),
                                             Corner(jVar + 3))
      Distance_Vertex == Point2Plane_Distance(Corner(jVar), Corner(jVar + 1),
                                              Corner(jVar + 2), Corner(jVar + 3))
  IN Distance_Point * Distance_Vertex < 0

\* Inside after the inner loop over the four faces of tetrahedron iVar
TetrahedronAccepts(corners, C, iVar) ==
  \A jVar \in 0..3 : ~OppositeSides(corners, C, iVar, jVar)

\* a faulty variant: the fifth tetrahedron is never tried
RECURSIVE TetrahedraLoop_Four(_, _, _)
TetrahedraLoop_Four(corners, C, iVar) ==
  IF iVar >= 4 THEN FALSE
  ELSE IF TetrahedronAccepts(corners, C, iVar) THEN TRUE
  ELSE TetrahedraLoop_Four(corners, C, iVar + 1)

\* the loop over the tetrahedra from iVar on, left at the first that accepts;
\* Inside is what the last tetrahedron tried made it
RECURSIVE TetrahedraLoop(_, _, _)
TetrahedraLoop(corners, C, iVar) ==
  IF iVar >= 5 THEN FALSE
  ELSE IF TetrahedronAccepts(corners, C, iVar) THEN TRUE
  ELSE TetrahedraLoop(corners, C, iVar + 1)

BoxInit ==
  /\ nDim \in {2, 3}
  /\ Coord_Corner_Points \in (IF nDim = 2 THEN Boxes2D ELSE Boxes3D)
  /\ pointCoord \in {x \in PointCoords \X PointCoords \X PointCoords : nDim = 2 => x[3] = 0}
  /\ Inside = <<>>

\* CFreeFormDefBox::GetPointFFD(geometry, config, iPoint)
GetPointFFD ==
  /\ Inside = <<>>
  /\ Inside' = <<TetrahedraLoop(Coord_Corner_Points, QueryCoord(pointCoord), 0)>>
  /\ UNCHANGED notBox
  /\ UNCHANGED <<nDim, Coord_Corner_Points, pointCoord>>

BoxNext == GetPointFFD

(* ==================== GetParametricCoord_Iterative ===================== *)
(* The Newton step of an iteration depends on the point, on the lattice and *)
(* on the guess rand() gave: the model takes what the tests of the          *)
(* iteration make of it, converged, |step| <= 1.8 or |step| > 1.8.          *)

\* unsigned short Random_Trials = 500, scaled down
Random_Trials == 4

\* the largest nFFD_Iter of a run
MaxFFD_Iter == 3

StepKinds == {"converged", "small", "large"}

\* a faulty variant: the loop makes one iteration more
LoopRuns_OneMore(i, it_max) == it_max > 0 /\ i <= it_max * Random_Trials

\* the loop condition: iter < it_max*Random_Trials

LoopRuns(i, it_max) == i < it_max * Random_Trials

\* ParamCoord after the successive over-relaxation update
Relaxed(pc0) == [pc0 EXCEPT !.updates = @ + 1]

\* the test that sends the search to a new guess
NoConvergence(i, it_max, step) == (i % it_max = 0 /\ i # 0) \/ step = "large"

NewtonInit ==
  /\ nFFD_Iter \in 0..MaxFFD_Iter
  /\ iterFFD = 0
  /\ RandonCounter = 0
  /\ SOR_Factor = 10
  /\ ParamCoord = [from |-> "ParamCoordGuess", updates |-> 0]
  /\ drawn = 0
  /\ cout = <<>>
  /\ npc = "loop"
  /\ returned = <<>>

\* an iteration that ends at the break: the step is below the tolerance
IterationConverged ==
  /\ npc = "loop"
  /\ LoopRuns(iterFFD, nFFD_Iter)
  /\ ParamCoord' = Relaxed(ParamCoord)
  /\ npc' = "return"
  /\ UNCHANGED notNewton
  /\ UNCHANGED <<nFFD_Iter, iterFFD, RandonCounter, SOR_Factor, drawn, cout, returned>>

\* an iteration that goes on, the search kept or sent to a new random guess
IterationGoesOn ==
  /\ npc = "loop"
  /\ LoopRuns(iterFFD, nFFD_Iter)
  /\ \E step \in StepKinds \ {"converged"} :
       IF NoConvergence(iterFFD, nFFD_Iter, step)
         THEN /\ RandonCounter' = RandonCounter + 1
              /\ IF RandonCounter + 1 = Random_Trials
                   THEN /\ cout' = Append(cout, "Unknown point: Min Error")
                        /\ ParamCoord' = Relaxed(ParamCoord)
                        /\ UNCHANGED <<SOR_Factor, drawn>>
                   ELSE /\ SOR_Factor' = 1
                        /\ ParamCoord' = [from |-> "rand", updates |-> 0]
                        /\ drawn' = drawn + 1
                        /\ UNCHANGED cout
         ELSE /\ ParamCoord' = Relaxed(ParamCoord)
              /\ UNCHANGED <<RandonCounter, SOR_Factor, drawn, cout>>
  /\ iterFFD' = iterFFD + 1
  /\ UNCHANGED notNewton
  /\ UNCHANGED <<nFFD_Iter, npc, returned>>

\* the loop ran out of iterations
LoopExhausted ==
  /\ npc = "loop"
  /\ ~LoopRuns(iterFFD, nFFD_Iter)
  /\ cout' = Append(cout, "Unknown point: Increase the value of FFD_ITERATIONS")
  /\ npc' = "return"
  /\ UNCHANGED notNewton
  /\ UNCHANGED <<nFFD_Iter, iterFFD, RandonCounter, SOR_Factor, ParamCoord, drawn, returned>>

\* return ParamCoord
ReturnParamCoord ==
  /\ npc = "return"
  /\ returned' = <<ParamCoord>>
  /\ npc' = "done"
  /\ UNCHANGED notNewton
  /\ UNCHANGED <<nFFD_Iter, iterFFD, RandonCounter, SOR_Factor, ParamCoord, drawn, cout>>

NewtonNext ==
  \/ IterationConverged
  \/ IterationGoesOn
  \/ LoopExhausted
  \/ ReturnParamCoord

(* ============================== Binomial =============================== *)
(* An unsigned long is a sequence of limbs of 16 bits, the lowest first.    *)

LimbBase == 2^16

\* the limbs of an unsigned long of 64 bits
ULongLimbs == 64 \div 16

\* unsigned long binomial[1000]
BufferSize == 1000

\* the value v < LimbBase as a number of limbs limbs
RECURSIVE Limbs(_, _)
Limbs(v, limbs) == IF limbs = 0 THEN <<>> ELSE <<v>> \o Limbs(0, limbs - 1)

\* a + b in the width of a: the carry out of the highest limb is lost
RECURSIVE AddFrom(_, _, _, _)
AddFrom(a, b, k, carry) ==
  IF k > Len(a) THEN <<>>
  ELSE <<(a[k] + b[k] + carry) % LimbBase>>
         \o AddFrom(a, b, k + 1, (a[k] + b[k] + carry) \div LimbBase)

\* binomial[j] += binomial[j-1U]
PascalStep(upper, left) == AddFrom(upper, left, 1, 0)

\* the buffer after the pass i of the outer loop: binomial[i] = 1, then j runs
\* down from i-1 to 1, so that binomial[j-1] is still of the row before
RowPass(row, i) ==
  [j \in 0..i |-> IF j = i THEN Limbs(1, Len(row[0]))
                  ELSE IF j = 0 THEN row[0]
                  ELSE PascalStep(row[j], row[j - 1])]

\* the buffer after the passes 1..n, in numbers of limbs limbs
RECURSIVE BinomialRow(_, _)
BinomialRow(n, limbs) ==
  IF n = 0 THEN [j \in {0} |-> Limbs(1, limbs)]
  ELSE RowPass(BinomialRow(n - 1, limbs), n)

\* CFreeFormDefBox::Binomial(n, m): binomial[m], an unsigned long; the calls
\* GetBernstein makes
Binomial(n, m) == BinomialRow(n, ULongLimbs)[m]

\* the highest n of the calls
MaxBinomial_n == 68

\* the calls: the small rows and the rows at the bound
Binomial_ns == 0..6 \cup (MaxBinomial_n - 2)..MaxBinomial_n

BinomialInit ==
  /\ bin_n \in Binomial_ns
  /\ bin_m \in 0..bin_n
  /\ bin_i = 1
  /\ binomial = [j \in {0} |-> Limbs(1, ULongLimbs)]
  /\ bin_value = <<>>

\* a pass of the outer loop of the call Binomial(bin_n, bin_m)
BinomialPass ==
  /\ bin_value = <<>>
  /\ bin_i <= bin_n
  /\ binomial' = RowPass(binomial, bin_i)
  /\ bin_i' = bin_i + 1
  /\ UNCHANGED notBinomial
  /\ UNCHANGED <<bin_n, bin_m, bin_value>>

\* return binomial[m]
BinomialReturn ==
  /\ bin_value = <<>>
  /\ bin_i > bin_n
  /\ bin_value' = <<binomial[bin_m]>>
  /\ UNCHANGED notBinomial
  /\ UNCHANGED <<bin_n, bin_m, bin_i, binomial>>

BinomialNext ==
  \/ BinomialPass
  \/ BinomialReturn

(* ====================== GetBernstein and its derivative ================= *)
(* The parameter t is a whole number of parts of TDen; a value is a whole   *)
(* number of parts of BernUnit.                                             *)

\* the highest degree asked for
MaxDegree == 3

\* the highest order of derivation asked for
MaxOrder == 2

\* the parts of the unit interval
TDen == 2 + 2

BernUnit == TDen^(MaxDegree + MaxOrder)

\* an unsigned long as a double (the values of the model are below 2^31)
ToDouble(x) ==
  LET RECURSIVE From(_)
      From(k) == IF k > Len(x) THEN 0 ELSE x[k] + LimbBase * From(k + 1)
  IN From(1)

\* pow(b / TDen, e) for e >= 0, in parts of TDen^e
RECURSIVE Pow(_, _)
Pow(b, e) == IF e = 0 THEN 1 ELSE b * Pow(b, e - 1)

\* Binomial(n,i) * pow(t,i) * pow(1-t,n-i)
BernsteinFormula(n, i, t) ==
  ToDouble(Binomial(n, i)) * Pow(t, i) * Pow(TDen - t, n - i) * (BernUnit \div TDen^n)

\* CFreeFormDefBox::GetBernstein(val_n, val_i, val_t)
GetBernstein(n, i, t) ==
  IF i > n THEN 0
  ELSE IF i = 0
    THEN IF t = 0 THEN BernUnit
         ELSE IF t = TDen THEN 0
         ELSE BernsteinFormula(n, i, t)
  ELSE IF i = n
    THEN IF t = 0 THEN 0
         ELSE IF t = TDen THEN BernUnit
         ELSE Pow(t, n) * (BernUnit \div TDen^n)
  ELSE BernsteinFormula(n, i, t)

\* CFreeFormDefBox::GetBernsteinDerivative(val_n, val_i, val_t, val_order)
RECURSIVE GetBernsteinDerivative(_, _, _, _)
GetBernsteinDerivative(n, i, t, order) ==
  IF order = 0 THEN GetBernstein(n, i, t)
  ELSE IF i = 0 THEN n * (-GetBernsteinDerivative(n - 1, i, t, order - 1))
  ELSE IF n = 0 THEN t * (BernUnit \div TDen)
  ELSE n * (GetBernsteinDerivative(n - 1, i - 1, t, order - 1)
            - GetBernsteinDerivative(n - 1, i, t, order - 1))

BernInit ==
  /\ val_n \in 0..MaxDegree
  /\ val_i \in 0..val_n
  /\ val_t \in 0..TDen
  /\ val_order \in 0..MaxOrder
  /\ basis = <<>>
  /\ derivative = <<>>

\* the calls GetBernstein(val_n, i, val_t) for every index of the degree
CallGetBernstein ==
  /\ basis = <<>>
  /\ basis' = [i \in 0..val_n |-> GetBernstein(val_n, i, val_t)]
  /\ UNCHANGED notBern
  /\ UNCHANGED <<val_n, val_i, val_t, val_order, derivative>>

\* the call GetBernsteinDerivative(val_n, val_i, val_t, val_order)
CallGetBernsteinDerivative ==
  /\ derivative = <<>>
  /\ derivative' = <<GetBernsteinDerivative(val_n, val_i, val_t, val_order)>>
  /\ UNCHANGED notBern
  /\ UNCHANGED <<val_n, val_i, val_t, val_order, basis>>

BernNext ==
  \/ CallGetBernstein
  \/ CallGetBernsteinDerivative

(* ===================== ReadFFDInfo and WriteFFDInfo ===================== *)
(* A line of the mesh file is a sequence of characters. A double is a whole *)
(* number of thousandths.                                                   *)

\* mesh_file.precision(15), scaled down to the length of the numbers of the runs
FilePrecision == 3

\* the thousandths of a unit
Milli == 10^3

Digits == <<"0", "1", "2", "3", "4", "5", "6", "7", "8", "9">>

IsDigit(c) == \E d \in 1..10 : Digits[d] = c

DigitValue(c) == (CHOOSE d \in 1..10 : Digits[d] = c) - 1

IsSpace(c) == c \in {" ", "\t", "\r", "\n"}

\* the number of decimal digits of v >= 0
RECURSIVE NumDigits(_)
NumDigits(v) == IF v < 10 THEN 1 ELSE 1 + NumDigits(v \div 10)

\* operator<< of a whole number v >= 0
RECURSIVE IntText(_)
IntText(v) == IF v < 10 THEN <<Digits[v + 1]>> ELSE IntText(v \div 10) \o <<Digits[(v % 10) + 1]>>

\* the digits of v in a field of width digits, zeros in front
RECURSIVE PaddedText(_, _)
PaddedText(v, width) ==
  IF width = 0 THEN <<>> ELSE PaddedText(v \div 10, width - 1) \o <<Digits[(v % 10) + 1]>>

\* the text without the zeros at its end
RECURSIVE TrimZeros(_)
TrimZeros(text) ==
  IF text # <<>> /\ text[Len(text)] = "0" THEN TrimZeros(SubSeq(text, 1, Len(text) - 1))
  ELSE text

\* a >= 0 rounded to its first digits decimal digits
RoundSig(a, digits) ==
  IF NumDigits(a) <= digits THEN a
  ELSE LET q == 10^(NumDigits(a) - digits) IN ((a + q \div 2) \div q) * q

\* operator<< of a double in the default format: precision significant
\* digits, no zeros at the end (the numbers of the runs are below 10^precision
\* and need no exponent)
FixedText(x, precision) ==
  LET v == RoundSig(Abs(x), precision)
      fraction == TrimZeros(PaddedText(v % Milli, 3))
  IN (IF x < 0 THEN <<"-">> ELSE <<>>) \o IntText(v \div Milli)
       \o (IF fraction = <<>> THEN <<>> ELSE <<".">> \o fraction)

\* operator<< of a double after << scientific: one digit, precision digits
\* after the point and the exponent in two digits
ScientificText(x, precision) ==
  LET v == RoundSig(Abs(x), precision + 1)
      n == NumDigits(v)
      mantissa == IF n > precision + 1 THEN v \div 10^(n - precision - 1)
                  ELSE v * 10^(precision + 1 - n)
      exponent == IF v = 0 THEN 0 ELSE n - 1 - 3
  IN (IF x < 0 THEN <<"-">> ELSE <<>>)
       \o <<Digits[mantissa \div 10^precision + 1], ".">>
       \o PaddedText(mantissa % 10^precision, precision)
       \o <<"e", IF exponent < 0 THEN "-" ELSE "+">> \o PaddedText(Abs(exponent), 2)

\* a writer that keeps one digit less
DoubleText_OneDigitLess(x, scientific) ==
  IF scientific THEN ScientificText(x, FilePrecision - 2) ELSE FixedText(x, FilePrecision - 1)

\* operator<< of a double, the stream being in the format it is in
DoubleText(x, scientific) ==
  IF scientific THEN ScientificText(x, FilePrecision) ELSE FixedText(x, FilePrecision)

\* the length of the digits text begins with
RECURSIVE DigitRun(_)
DigitRun(text) ==
  IF text # <<>> /\ IsDigit(text[1]) THEN 1 + DigitRun(Tail(text)) ELSE 0

\* the whole number the digits text is made of
RECURSIVE DigitsValue(_)
DigitsValue(text) ==
  IF text = <<>> THEN 0
  ELSE DigitsValue(SubSeq(text, 1, Len(text) - 1)) * 10 + DigitValue(text[Len(text)])

\* the text without the white space it begins with
RECURSIVE SkipSpace(_)
SkipSpace(text) == IF text # <<>> /\ IsSpace(text[1]) THEN SkipSpace(Tail(text)) ELSE text

\* atoi(text_line.c_str()): white space, then the digits up to the first other character
Atoi(text) ==
  LET t == SkipSpace(text) IN DigitsValue(SubSeq(t, 1, DigitRun(t)))

\* text_line.erase(pos, count)
Erase(text, pos, count) == SubSeq(text, 1, pos) \o SubSeq(text, pos + count + 1, Len(text))

\* text_line.find(pattern, 0): the position of the first occurrence, -1 for npos
Find(text, pattern) ==
  LET At(p) == p + Len(pattern) <= Len(text) /\ SubSeq(text, p + 1, p + Len(pattern)) = pattern
      places == {p \in 0..Len(text) : At(p)}
  IN IF places = {} THEN -1 ELSE CHOOSE p \in places : \A q \in places : p <= q

\* one pass of the loop that removes extra data from a name: the first blank,
\* the first carriage return and the first line feed are erased
StripOnce(text) ==
  LET EraseFirst(t, c) == IF Find(t, <<c>>) # -1 THEN Erase(t, Find(t, <<c>>), 1) ELSE t
  IN EraseFirst(EraseFirst(EraseFirst(text, " "), "\r"), "\n")

\* the passes iChar..19 of that loop
RECURSIVE StripName(_, _)
StripName(text, iChar) ==
  IF iChar >= 20 THEN text
  ELSE LET stripped == StripOnce(text)
       IN IF Len(stripped) >= 0 THEN StripName(stripped, iChar + 1) ELSE stripped

\* FFDBox_line >> field: the text after the white space, up to the next
\* white space, and what is left of the line
RECURSIVE FieldEnd(_)
FieldEnd(text) == IF text # <<>> /\ ~IsSpace(text[1]) THEN 1 + FieldEnd(Tail(text)) ELSE 0

NextField(text) ==
  LET t == SkipSpace(text)
  IN [field |-> SubSeq(t, 1, FieldEnd(t)), rest |-> SubSeq(t, FieldEnd(t) + 1, Len(t))]

\* digits times 10^power, in whole thousandths
Scaled(digits, power) ==
  IF power >= 0 THEN digits * 10^power ELSE digits \div 10^(-power)

\* the exponent the text after the digits gives: "e", a sign and digits, or nothing
ExponentOf(rest) ==
  IF rest # <<>> /\ rest[1] = "e"
  THEN IF rest[2] = "-" THEN -DigitsValue(SubSeq(rest, 3, Len(rest)))
       ELSE DigitsValue(SubSeq(rest, 3, Len(rest)))
  ELSE 0

\* the value of the digits whole before the point, the digits fraction after
\* it and the exponent in rest
ParseExponent(whole, fraction, rest) ==
  Scaled(DigitsValue(whole \o fraction), 3 - Len(fraction) + ExponentOf(rest))

\* the digits whole have been read: a point and more digits may follow
ParseFraction(whole, rest) ==
  IF rest # <<>> /\ rest[1] = "."
  THEN ParseExponent(whole, SubSeq(rest, 2, 1 + DigitRun(Tail(rest))),
                     SubSeq(rest, 2 + DigitRun(Tail(rest)), Len(rest)))
  ELSE ParseExponent(whole, <<>>, rest)

\* the value of a text without sign
ParseUnsigned(text) ==
  ParseFraction(SubSeq(text, 1, DigitRun(text)), SubSeq(text, DigitRun(text) + 1, Len(text)))

\* >> of a double: sign, digits, point, digits, exponent; the value in thousandths
ParseDouble(field) ==
  IF field # <<>> /\ field[1] = "-" THEN -ParseUnsigned(Tail(field)) ELSE ParseUnsigned(field)

\* the keywords of the mesh file, character by character
Key_NELEM == <<"N", "E", "L", "E", "M", "=">>

Key_NPOIN == <<"N", "P", "O", "I", "N", "=">>

Key_NMARK == <<"N", "M", "A", "R", "K", "=">>

Key_FFD_NBOX == <<"F", "F", "D", "_", "N", "B", "O", "X", "=">>

Key_FFD_NLEVEL == <<"F", "F", "D", "_", "N", "L", "E", "V", "E", "L", "=">>

Key_FFD_TAG == <<"F", "F", "D", "_", "T", "A", "G", "=">>

Key_FFD_LEVEL == <<"F", "F", "D", "_", "L", "E", "V", "E", "L", "=">>

Key_FFD_DEGREE_I == <<"F", "F", "D", "_", "D", "E", "G", "R", "E", "E", "_", "I", "=">>

Key_FFD_DEGREE_J == <<"F", "F", "D", "_", "D", "E", "G", "R", "E", "E", "_", "J", "=">>

Key_FFD_DEGREE_K == <<"F", "F", "D", "_", "D", "E", "G", "R", "E", "E", "_", "K", "=">>

Key_FFD_PARENTS == <<"F", "F", "D", "_", "P", "A", "R", "E", "N", "T", "S", "=">>

Key_FFD_CHILDREN == <<"F", "F", "D", "_", "C", "H", "I", "L", "D", "R", "E", "N", "=">>

Key_FFD_CORNER_POINTS == <<"F", "F", "D", "_", "C", "O", "R", "N", "E", "R", "_", "P", "O", "I", "N", "T", "S", "=">>

Key_FFD_CONTROL_POINTS == <<"F", "F", "D", "_", "C", "O", "N", "T", "R", "O", "L", "_", "P", "O", "I", "N", "T", "S", "=">>

Key_FFD_SURFACE_POINTS == <<"F", "F", "D", "_", "S", "U", "R", "F", "A", "C", "E", "_", "P", "O", "I", "N", "T", "S", "=">>

\* the fields of a line, a tab between them
RECURSIVE TabJoin(_)
TabJoin(fields) ==
  IF Len(fields) = 1 THEN fields[1]
  ELSE fields[1] \o <<"\t">> \o TabJoin(Tail(fields))

\* mesh_file << "KEY= " << v << endl
KeyLine(key, v) == key \o <<" ">> \o IntText(v)

\* the lines of all the sequences of lines, in their order
RECURSIVE Flatten(_)
Flatten(blocks) == IF blocks = <<>> THEN <<>> ELSE blocks[1] \o Flatten(Tail(blocks))

\* GetnControlPoints(): lOrder*mOrder*nOrder, set by the constructor
GetnControlPoints(box) == box.lOrder * box.mOrder * box.nOrder

\* the indices of the n-th control point of the loops over iOrder, jOrder, kOrder
ControlPointIndex(box, n) ==
  << (n - 1) \div (box.mOrder * box.nOrder),
     ((n - 1) \div box.nOrder) % box.mOrder,
     (n - 1) % box.nOrder >>

\* the lines of the corner points: x and y of the first half in 2D, x, y and
\* z of all the eight in 3D
CornerLines(box, dim, scientific) ==
  IF dim = 2
  THEN <<KeyLine(Key_FFD_CORNER_POINTS, 8 \div 2)>>
         \o [c \in 1..(8 \div 2) |->
               TabJoin([d \in 1..2 |->
                          DoubleText(box.Coord_Corner_Points[c - 1][d], scientific)])]
  ELSE <<KeyLine(Key_FFD_CORNER_POINTS, 8)>>
         \o [c \in 1..8 |->
               TabJoin([d \in 1..3 |->
                          DoubleText(box.Coord_Corner_Points[c - 1][d], scientific)])]

\* the lines of the control points
ControlPointLines(box, scientific) ==
  <<KeyLine(Key_FFD_CONTROL_POINTS, GetnControlPoints(box))>>
    \o [n \in 1..GetnControlPoints(box) |->
          LET ijk == ControlPointIndex(box, n)
          IN TabJoin(<<IntText(ijk[1]), IntText(ijk[2]), IntText(ijk[3])>>
                       \o [d \in 1..3 |->
                             DoubleText(box.Coord_Control_Points[ijk][d], scientific)])]

\* the surface points written: all of them by the writer of the whole mesh,
\* by the writer of a partition those of its own points
PointsWritten(box, partition) ==
  IF partition THEN SelectSeq(box.SurfacePoints, LAMBDA p : p.Local # -1)
  ELSE box.SurfacePoints

\* the lines of the surface points, each after << scientific
SurfacePointLines(box, partition) ==
  LET points == PointsWritten(box, partition)
  IN <<KeyLine(Key_FFD_SURFACE_POINTS, Len(points))>>
       \o [n \in 1..Len(points) |->
             TabJoin(<<points[n].TagBound,
                       IntText(IF partition THEN points[n].Local ELSE points[n].iPoint)>>
                       \o [d \in 1..3 |-> DoubleText(points[n].ParametricCoord[d], TRUE)])]

\* the lines of one box up to its corner points
BoxHeadLines(box, dim, scientific) ==
  Flatten(<<
    <<Key_FFD_TAG \o <<" ">> \o box.Tag,
      KeyLine(Key_FFD_LEVEL, box.Level),
      KeyLine(Key_FFD_DEGREE_I, box.lOrder - 1),
      KeyLine(Key_FFD_DEGREE_J, box.mOrder - 1)>>,
    IF dim = 3 THEN <<KeyLine(Key_FFD_DEGREE_K, box.nOrder - 1)>> ELSE <<>>,
    <<KeyLine(Key_FFD_PARENTS, Len(box.ParentFFDBox))>>,
    box.ParentFFDBox,
    <<KeyLine(Key_FFD_CHILDREN, Len(box.ChildFFDBox))>>,
    box.ChildFFDBox,
    CornerLines(box, dim, scientific) >>)

\* the lines of one box, the stream being in the format it is in
BoxLines(box, dim, scientific, partition) ==
  BoxHeadLines(box, dim, scientific)
    \o (IF GetnControlPoints(box) = 0
        THEN <<KeyLine(Key_FFD_CONTROL_POINTS, 0), KeyLine(Key_FFD_SURFACE_POINTS, 0)>>
        ELSE ControlPointLines(box, scientific) \o SurfacePointLines(box, partition))

\* << scientific stays with the stream: it is on after the first surface point
ScientificAfter(box, scientific, partition) ==
  scientific \/ (GetnControlPoints(box) # 0 /\ PointsWritten(box, partition) # <<>>)

\* the loop over the boxes, from box iFFDBox on
RECURSIVE WriteBoxes(_, _, _, _, _, _)
WriteBoxes(forest, dim, iFFDBox, scientific, partition, lines) ==
  IF iFFDBox > Len(forest) THEN lines
  ELSE LET written == lines \o BoxLines(forest[iFFDBox], dim, scientific, partition)
       IN IF Len(written) >= 0
          THEN WriteBoxes(forest, dim, iFFDBox + 1,
                          ScientificAfter(forest[iFFDBox], scientific, partition),
                          partition, written)
          ELSE written

\* what WriteFFDInfo appends to the mesh file; the writer of a partition
\* writes nothing when there is no box
FFDInfoLines(forest, levels, dim, partition) ==
  IF forest = <<>>
  THEN IF partition THEN <<>> ELSE <<KeyLine(Key_FFD_NBOX, 0)>>
  ELSE WriteBoxes(forest, dim, 1, FALSE, partition,
                  <<KeyLine(Key_FFD_NBOX, Len(forest)), KeyLine(Key_FFD_NLEVEL, levels)>>)

\* getline(mesh_file, text_line): the line at pos, nothing after the end
GetLine(file, pos) == IF pos <= Len(file) THEN file[pos] ELSE <<>>

\* the fields of a line, in their order
RECURSIVE Fields(_)
RECURSIVE FieldsAfter(_)
FieldsAfter(first) == <<first.field>> \o Fields(first.rest)

Fields(text) == IF SkipSpace(text) = <<>> THEN <<>> ELSE FieldsAfter(NextField(text))

\* the three coordinates of a new CFreeFormDefBox
ZeroCoord == <<0, 0, 0>>

\* SetCoordControlPoints(coord, iDegree, jDegree, kDegree) of a line of fields
SetCoordControlPoints(points, fields) ==
  [points EXCEPT ![<<Atoi(fields[1]), Atoi(fields[2]), Atoi(fields[3])>>] =
                   [d \in 1..3 |-> ParseDouble(fields[d + 3])]]

\* the loop over the lines of the control points, from line iControlPoints
\* on: the point of the indices of the line takes the coordinates of the line
RECURSIVE ReadControlPoints(_, _, _, _, _)
ReadControlPoints(file, atControl, iControlPoints, nControlPoints, points) ==
  IF iControlPoints >= nControlPoints THEN points
  ELSE LET set == SetCoordControlPoints(points,
                                        Fields(GetLine(file, atControl + 1 + iControlPoints)))
       IN IF DOMAIN set = DOMAIN points
          THEN ReadControlPoints(file, atControl, iControlPoints + 1, nControlPoints, set)
          ELSE set

\* the count a line gives after its keyword of keyLength characters
CountAt(file, at, keyLength) == Atoi(Erase(GetLine(file, at), 0, keyLength))

\* the names of the nTags lines after the line at
ReadTags(file, at, nTags) == [n \in 1..nTags |-> StripName(GetLine(file, at + n), 0)]

\* coordinate d of the line of corner c
CornerCoord(file, at, c, d) == ParseDouble(Fields(GetLine(file, at + 1 + c))[d])

\* the corners of a box: in 2D the lines give x and y of the first half at
\* z = -0.5, the second half repeats them at z = +0.5
ReadCorners(file, at, dim, cornersRead) ==
  IF dim = 2
  THEN [c \in 0..(cornersRead * 2 - 1) |->
          IF c < (cornersRead * 2) \div 2
          THEN <<CornerCoord(file, at, c, 1), CornerCoord(file, at, c, 2), -(Milli \div 2)>>
          ELSE <<CornerCoord(file, at, c - (cornersRead * 2) \div 2, 1),
                 CornerCoord(file, at, c - (cornersRead * 2) \div 2, 2), Milli \div 2>>]
  ELSE [c \in 0..(cornersRead - 1) |-> [d \in 1..3 |-> CornerCoord(file, at, c, d)]]

\* the control points of a new CFreeFormDefBox
ZeroControlPoints(box) ==
  [ijk \in (0..(box.lOrder - 1)) \X (0..(box.mOrder - 1)) \X (0..(box.nOrder - 1)) |-> ZeroCoord]

\* the count of the surface points, at the line at: their lines are passed over
ReadBoxSurface(file, box, defined, at) ==
  [box |-> box, defined |-> defined, next |-> at + CountAt(file, at, 19) + 1]

\* the count and the lines of the control points, at the line at
ReadBoxControl(file, box, at) ==
  ReadBoxSurface(file,
                 [Coord_Control_Points |->
                    ReadControlPoints(file, at, 0, CountAt(file, at, 19),
                                      ZeroControlPoints(box))] @@ box,
                 CountAt(file, at, 19) # 0,
                 at + CountAt(file, at, 19) + 1)

\* the count and the lines of the corner points, at the line at
ReadBoxCorners(file, dim, box, at) ==
  ReadBoxControl(file,
                 [Coord_Corner_Points |-> ReadCorners(file, at, dim, CountAt(file, at, 18))]
                   @@ box,
                 at + 1 + CountAt(file, at, 18))

\* the count and the tags of the children, at the line at
ReadBoxChildren(file, dim, box, at) ==
  ReadBoxCorners(file, dim,
                 [ChildFFDBox |-> ReadTags(file, at, CountAt(file, at, 13))] @@ box,
                 at + CountAt(file, at, 13) + 1)

\* the count and the tags of the parents, at the line at
ReadBoxParents(file, dim, box, at) ==
  ReadBoxChildren(file, dim,
                  [ParentFFDBox |-> ReadTags(file, at, CountAt(file, at, 12))] @@ box,
                  at + CountAt(file, at, 12) + 1)

\* one box of the file, its first line at pos: the box, whether it has
\* control points in the file, and the place of the line after it
ReadBox(file, pos, dim) ==
  ReadBoxParents(file, dim,
                 [Tag |-> StripName(Erase(GetLine(file, pos), 0, 8), 0),
                  Level |-> CountAt(file, pos + 1, 10),
                  lOrder |-> CountAt(file, pos + 2, 13) + 1,
                  mOrder |-> CountAt(file, pos + 3, 13) + 1,
                  nOrder |-> IF dim = 2 THEN 1 + 1 ELSE CountAt(file, pos + 4, 13) + 1],
                 IF dim = 2 THEN pos + 4 ELSE pos + 5)

\* what is held after one more box was read
BoxRead(sofar, read) ==
  [FFDBox |-> Append(sofar.FFDBox, read.box),
   FFDBoxDefinition |-> sofar.FFDBoxDefinition \/ read.defined,
   next |-> read.next]

\* the loop over the boxes of the file, from box iFFDBox on
RECURSIVE ReadBoxes(_, _, _, _, _)
ReadBoxes(file, dim, nBoxes, iFFDBox, sofar) ==
  IF iFFDBox >= nBoxes THEN sofar
  ELSE LET grown == BoxRead(sofar, ReadBox(file, sofar.next, dim))
       IN IF grown.next >= 0 THEN ReadBoxes(file, dim, nBoxes, iFFDBox + 1, grown) ELSE grown

\* the lines the markers from marker iMarker on take after the line at
RECURSIVE MarkerLines(_, _, _)
MarkerLines(file, at, iMarker) ==
  IF iMarker = 0 THEN 0
  ELSE 2 + CountAt(file, at + 2, 13)
         + MarkerLines(file, at + 2 + CountAt(file, at + 2, 13), iMarker - 1)

\* the lines a section of the mesh takes after the line at pos that names it
SectionLines(file, pos) ==
  IF Find(GetLine(file, pos), Key_NELEM) # -1 \/ Find(GetLine(file, pos), Key_NPOIN) # -1
  THEN CountAt(file, pos, 6)
  ELSE IF Find(GetLine(file, pos), Key_NMARK) # -1
       THEN MarkerLines(file, pos, CountAt(file, pos, 6))
       ELSE 0

\* the box section whose line FFD_NBOX= is at pos: what the object holds after
\* it, and the place of the line after it
BoxSection(nBoxes, levels, read) ==
  [held |-> [nFFDBox |-> nBoxes, nLevel |-> levels, FFDBox |-> read.FFDBox,
             FFDBoxDefinition |-> read.FFDBoxDefinition],
   next |-> read.next]

ReadBoxSection(file, dim, pos, held) ==
  BoxSection(CountAt(file, pos, 9), CountAt(file, pos + 1, 11),
             ReadBoxes(file, dim, CountAt(file, pos, 9), 0,
                       [FFDBox |-> <<>>, FFDBoxDefinition |-> held.FFDBoxDefinition,
                        next |-> pos + 2]))

\* while (getline(mesh_file, text_line)), from the line at pos on: what the
\* object holds at the end of the file
RECURSIVE ReadLines(_, _, _, _)
RECURSIVE ReadOn(_, _, _)
ReadOn(file, dim, section) == ReadLines(file, dim, section.next, section.held)

ReadLines(file, dim, pos, held) ==
  IF pos > Len(file) THEN held
  ELSE IF Find(GetLine(file, pos), Key_FFD_NBOX) # -1
       THEN ReadOn(file, dim, ReadBoxSection(file, dim, pos, held))
       ELSE ReadLines(file, dim, pos + SectionLines(file, pos) + 1, held)

\* what ReadFFDInfo says at its end of a file with no box
NoDefinitionMessage == "There is no FFD box definition. Just in case, review the .su2 file"

ReaderSays(held) == IF held.nFFDBox = 0 THEN <<NoDefinitionMessage>> ELSE <<>>

\* what a new CSurfaceMovement holds
NewSurfaceMovement ==
  [nFFDBox |-> 0, nLevel |-> 0, FFDBox |-> <<>>, FFDBoxDefinition |-> FALSE]

\* the most boxes of a forest
MaxFFDBoxes == 2

\* the tags of the runs
Tag_BOX == <<"B", "O", "X">>

Tag_TIP_2 == <<"T", "I", "P", "_", "2">>

Tag_wing == <<"w", "i", "n", "g">>

\* the mesh files of the runs, before the boxes are appended: one with one
\* element, three points and one marker, one with no element and no marker
MeshFiles ==
  { << <<"N", "D", "I", "M", "E", "=", " ", "2">>,
       <<"N", "E", "L", "E", "M", "=", " ", "1">>,
       <<"5", " ", "0", " ", "1", " ", "2", " ", "0">>,
       <<"N", "P", "O", "I", "N", "=", " ", "3">>,
       <<"0", " ", "0", " ", "0">>,
       <<"1", " ", "0", " ", "1">>,
       <<"0", " ", "1", " ", "2">>,
       <<"N", "M", "A", "R", "K", "=", " ", "1">>,
       <<"M", "A", "R", "K", "E", "R", "_", "T", "A", "G", "=", " ", "w", "i", "n", "g">>,
       <<"M", "A", "R", "K", "E", "R", "_", "E", "L", "E", "M", "S", "=", " ", "1">>,
       <<"3", " ", "0", " ", "1">> >>,
    << <<"N", "E", "L", "E", "M", "=", " ", "0">>,
       <<"N", "P", "O", "I", "N", "=", " ", "1">>,
       <<"0", " ", "0", " ", "0", " ", "0">>,
       <<"N", "M", "A", "R", "K", "=", " ", "0">> >> }

\* the control points of a box of the given degrees: the lattice between the
\* corners lo and hi, the point (0, 0, 0) moved by moved
Lattice(degree, lo, hi, moved) ==
  [ijk \in (0..degree[1]) \X (0..degree[2]) \X (0..degree[3]) |->
     [d \in 1..3 |->
        lo[d] + (ijk[d] * (hi[d] - lo[d])) \div degree[d]
          + (IF ijk = <<0, 0, 0>> THEN moved[d] ELSE 0)]]

\* a box as ReadFFDInfo builds it and the deformation leaves it
FFDBoxOf(tag, level, degree, parents, children, lo, hi, moved, points) ==
  [Tag |-> tag, Level |-> level,
   lOrder |-> degree[1] + 1, mOrder |-> degree[2] + 1, nOrder |-> degree[3] + 1,
   ParentFFDBox |-> parents, ChildFFDBox |-> children,
   Coord_Corner_Points |-> BoxCorners(lo, hi),
   Coord_Control_Points |-> Lattice(degree, lo, hi, moved),
   SurfacePoints |-> points]

\* surface points of the marker wing: one of the partition, one of another
WingPoints ==
  << [TagBound |-> Tag_wing, iPoint |-> 7, Local |-> 3,
      ParametricCoord |-> <<250, 500, 123456>>],
     [TagBound |-> Tag_wing, iPoint |-> 12, Local |-> -1,
      ParametricCoord |-> <<0, 1000, 7>>] >>

\* the boxes of the runs. In 2D the degree in k is 1 and the corners lie at
\* z = -0.5 and z = +0.5, as ReadFFDInfo sets them
SampleBoxes(dim) ==
  LET zlo == IF dim = 2 THEN -(Milli \div 2) ELSE -250
      zhi == IF dim = 2 THEN Milli \div 2 ELSE 1234567
      degreeK == IF dim = 2 THEN 1 ELSE 2
  IN { FFDBoxOf(Tag_BOX, 0, <<1, 1, 1>>, <<>>, <<Tag_TIP_2>>,
                <<-500, 0, zlo>>, <<1500, 12345, zhi>>, <<5, -20, 0>>, WingPoints),
       FFDBoxOf(Tag_TIP_2, 1, <<2, 1, degreeK>>, <<Tag_BOX>>, <<>>,
                <<250, 1001, zlo>>, <<750, 31416, zhi>>, <<0, 0, 333333>>, <<>>),
       FFDBoxOf(Tag_TIP_2, 0, <<1, 3, 1>>, <<Tag_BOX, Tag_BOX>>, <<Tag_TIP_2, Tag_BOX>>,
                <<0, 0, zlo>>, <<1000, 1000, zhi>>, <<0, 0, 0>>, <<>>) }

\* the forests of at most MaxFFDBoxes boxes
Forests(dim) ==
  UNION {[1..n -> SampleBoxes(dim)] : n \in 0..MaxFFDBoxes}

FileInit ==
  /\ nDim \in {2, 3}
  /\ FFDBox \in Forests(nDim)
  /\ nLevel \in {1 + 1}
  /\ writerOfPartition \in BOOLEAN
  /\ mesh_file \in MeshFiles
  /\ FFDBox_in = <<>>
  /\ nFFDBox_in = 0
  /\ nLevel_in = 0
  /\ FFDBoxDefinition = FALSE
  /\ said = <<>>
  /\ exited = FALSE
  /\ fpc = "write"

\* WriteFFDInfo(geometry, config, val_mesh_filename) of the whole mesh, or
\* WriteFFDInfo(geometry, config, FFDBox, val_mesh_filename) of a partition:
\* the boxes are appended to the mesh file
WriteFFDInfo ==
  /\ fpc = "write"
  /\ mesh_file' = mesh_file \o FFDInfoLines(FFDBox, nLevel, nDim, writerOfPartition)
  /\ fpc' = "read"
  /\ UNCHANGED <<nDim, FFDBox, nLevel, writerOfPartition, FFDBox_in, nFFDBox_in, nLevel_in,
                 FFDBoxDefinition, said, exited>>
  /\ UNCHANGED notFile

\* ReadFFDInfo(geometry, config, FFDBox, val_mesh_filename, val_fullmesh) of a
\* new CSurfaceMovement
ReadFFDInfo ==
  /\ fpc = "read"
  /\ LET held == ReadLines(mesh_file, nDim, 1, NewSurfaceMovement)
     IN /\ FFDBox_in' = held.FFDBox
        /\ nFFDBox_in' = held.nFFDBox
        /\ nLevel_in' = held.nLevel
        /\ FFDBoxDefinition' = held.FFDBoxDefinition
        /\ said' = said \o ReaderSays(held)
  /\ fpc' = "done"
  /\ UNCHANGED <<nDim, FFDBox, nLevel, writerOfPartition, mesh_file, exited>>
  /\ UNCHANGED notFile

FileNext == WriteFFDInfo \/ ReadFFDInfo

(* ============ SetSurface_Deformation, the free-form branches ============ *)

\* the design variables of the branch that deforms the boxes
FFDShapeKinds ==
  {"FFD_CONTROL_POINT_2D", "FFD_CAMBER_2D", "FFD_THICKNESS_2D", "FFD_CONTROL_POINT",
   "FFD_DIHEDRAL_ANGLE", "FFD_TWIST_ANGLE", "FFD_ROTATION", "FFD_CONTROL_SURFACE",
   "FFD_CAMBER", "FFD_THICKNESS"}

\* what the box section of a mesh file can be: none, one of no box, boxes as
\* the mesh generator defines them (no control point yet), and boxes as
\* WriteFFDInfo leaves them after FFD_SETTING
NoBoxLines == {<<>>, <<KeyLine(Key_FFD_NBOX, 0)>>}

UnsetBoxLines(dim) ==
  { <<KeyLine(Key_FFD_NBOX, 1), KeyLine(Key_FFD_NLEVEL, 1)>>
      \o BoxHeadLines(box, dim, FALSE)
      \o <<KeyLine(Key_FFD_CONTROL_POINTS, 0), KeyLine(Key_FFD_SURFACE_POINTS, 0)>> :
    box \in SampleBoxes(dim) }

SetBoxLines(dim) ==
  { FFDInfoLines(<<box>>, 1, dim, FALSE) : box \in SampleBoxes(dim) }

\* the mesh files whose box section is one of sections
FilesOf(sections) == {mesh \o section : mesh \in MeshFiles, section \in sections}

\* the deltas of the vertices after the boxes have been deformed
DeformedVarCoords ==
  { [v \in Vertices |-> [d \in 1..3 |-> IF d <= nDim THEN s ELSE 0]] : s \in {0, Scale, Stale} }

DeformInit ==
  /\ nDim \in {2, 3}
  /\ nDV = 1
  /\ \E kind \in {"FFD_SETTING"} \cup FFDShapeKinds : Design_Variable = [i \in {0} |-> kind]
  /\ DV_Value = [i \in {0} |-> Scale]
  /\ ParamDV = [i \in {0} |-> <<0, 0, 0, 0, 0, 0>>]
  /\ \E s \in {0, Stale} :
       VarCoord = [v \in Vertices |-> [d \in 1..3 |-> IF d <= nDim THEN s ELSE 0]]
  /\ pc = "idle"
  /\ iDV = 0
  /\ applied = <<>>
  /\ FFDBox = <<>>
  /\ nLevel = 0
  /\ writerOfPartition = FALSE
  /\ mesh_file \in FilesOf(NoBoxLines \cup UnsetBoxLines(nDim) \cup SetBoxLines(nDim))
  /\ FFDBox_in = <<>>
  /\ nFFDBox_in = 0
  /\ nLevel_in = 0
  /\ FFDBoxDefinition = FALSE
  /\ said = <<>>
  /\ exited = FALSE
  /\ fpc = "off"

\* the variables of the branches that no step of them changes
deformFixed == <<nDim, nDV, Design_Variable, DV_Value, ParamDV, iDV, applied, FFDBox, nLevel,
                 writerOfPartition, mesh_file, fpc>>

\* a faulty variant: a file with no box is taken as it is
NoBoxInFile_Never(n) == FALSE

\* nFFDBox != 0 fails
NoBoxInFile(n) == n = 0

\* either branch reads the boxes of the mesh file first
ReadTheBoxes ==
  /\ pc = "idle"
  /\ Design_Variable[0] \in {"FFD_SETTING"} \cup FFDShapeKinds
  /\ LET held == ReadLines(mesh_file, nDim, 1, NewSurfaceMovement)
     IN /\ FFDBox_in' = held.FFDBox
        /\ nFFDBox_in' = held.nFFDBox
        /\ nLevel_in' = held.nLevel
        /\ FFDBoxDefinition' = held.FFDBoxDefinition
        /\ said' = said \o ReaderSays(held)
  /\ pc' = "read"
  /\ UNCHANGED <<VarCoord, exited>>
  /\ UNCHANGED deformFixed
  /\ UNCHANGED notDeform

\* no box in the file: either branch ends the process
ExitNoBox ==
  /\ pc = "read"
  /\ NoBoxInFile(nFFDBox_in)
  /\ said' = Append(said, "There are not FFD boxes in the mesh file!!")
  /\ exited' = TRUE
  /\ pc' = "exit"
  /\ UNCHANGED <<VarCoord, FFDBox_in, nFFDBox_in, nLevel_in, FFDBoxDefinition>>
  /\ UNCHANGED deformFixed
  /\ UNCHANGED notDeform

\* FFD_SETTING with boxes: the parametric coordinates of the boxes are
\* computed, no delta is set ("No surface deformation (setting FFD).")
SettingDone ==
  /\ pc = "read"
  /\ Design_Variable[0] = "FFD_SETTING"
  /\ ~NoBoxInFile(nFFDBox_in)
  /\ said' = Append(said, "No surface deformation (setting FFD).")
  /\ pc' = "done"
  /\ UNCHANGED <<VarCoord, FFDBox_in, nFFDBox_in, nLevel_in, FFDBoxDefinition, exited>>
  /\ UNCHANGED deformFixed
  /\ UNCHANGED notDeform

\* a shape kind with boxes of which none has control points: the process ends
ExitNoDefinition ==
  /\ pc = "read"
  /\ Design_Variable[0] \in FFDShapeKinds
  /\ ~NoBoxInFile(nFFDBox_in)
  /\ ~FFDBoxDefinition
  /\ said' = Append(said, "There is not FFD box definition in the mesh file, run DV_KIND=FFD_SETTING first !!")
  /\ exited' = TRUE
  /\ pc' = "exit"
  /\ UNCHANGED <<VarCoord, FFDBox_in, nFFDBox_in, nLevel_in, FFDBoxDefinition>>
  /\ UNCHANGED deformFixed
  /\ UNCHANGED notDeform

\* a shape kind with defined boxes: the boxes are deformed level by level and
\* SetCartesianCoord sets the deltas of the vertices in them
DeformTheBoxes ==
  /\ pc = "read"
  /\ Design_Variable[0] \in FFDShapeKinds
  /\ ~NoBoxInFile(nFFDBox_in)
  /\ FFDBoxDefinition
  /\ VarCoord' \in DeformedVarCoords
  /\ pc' = "done"
  /\ UNCHANGED <<FFDBox_in, nFFDBox_in, nLevel_in, FFDBoxDefinition, said, exited>>
  /\ UNCHANGED deformFixed
  /\ UNCHANGED notDeform

DeformNext ==
  \/ ReadTheBoxes
  \/ ExitNoBox
  \/ SettingDone
  \/ ExitNoDefinition
  \/ DeformTheBoxes

(* ========================== the specifications ========================= *)

\* the state of a part whose routines a specification does not run
SurfIdle ==
  /\ nDV = 0
  /\ Design_Variable = <<>>
  /\ DV_Value = <<>>
  /\ ParamDV = <<>>
  /\ VarCoord = <<>>
  /\ pc = "off"
  /\ iDV = 0
  /\ applied = <<>>

GridIdle ==
  /\ HAVE_MPI = FALSE
  /\ elem = <<>>
  /\ node = <<>>
  /\ inverted = <<>>
  /\ cgpc = <<>>
  /\ ElemCounter = <<>>
  /\ MinArea = <<>>
  /\ MaxArea = <<>>
  /\ MinVolume = <<>>
  /\ MaxVolume = <<>>
  /\ SendBuf = <<>>
  /\ cgReturn = <<>>

VolIdle ==
  /\ config = <<>>
  /\ Coord = <<>>
  /\ LinSysRes = <<>>
  /\ LinSysSol = <<>>
  /\ RowDeleted = <<>>
  /\ iNonlinear_Iter = 0
  /\ vpc = "off"

RigidIdle ==
  /\ rconfig = <<>>
  /\ iZone = 0
  /\ ExtIter = 0
  /\ rCoord = <<>>
  /\ GridVel = <<>>
  /\ Motion_Origin = <<>>
  /\ RefOriginMoment = <<>>
  /\ calls = <<>>

BoxIdle ==
  /\ Coord_Corner_Points = <<>>
  /\ pointCoord = <<>>
  /\ Inside = <<>>

NewtonIdle ==
  /\ nFFD_Iter = 0
  /\ iterFFD = 0
  /\ RandonCounter = 0
  /\ SOR_Factor = 0
  /\ ParamCoord = <<>>
  /\ drawn = 0
  /\ cout = <<>>
  /\ npc = "off"
  /\ returned = <<>>

BernIdle ==
  /\ val_n = 0
  /\ val_i = 0
  /\ val_t = 0
  /\ val_order = 0
  /\ basis = <<>>
  /\ derivative = <<>>

BinomialIdle ==
  /\ bin_n = 0
  /\ bin_m = 0
  /\ bin_i = 0
  /\ binomial = <<>>
  /\ bin_value = <<>>

FileIdle ==
  /\ FFDBox = <<>>
  /\ nLevel = 0
  /\ writerOfPartition = FALSE
  /\ mesh_file = <<>>
  /\ FFDBox_in = <<>>
  /\ nFFDBox_in = 0
  /\ nLevel_in = 0
  /\ FFDBoxDefinition = FALSE
  /\ said = <<>>
  /\ exited = FALSE
  /\ fpc = "off"

MpiIdle ==
  /\ mpiRoutine = "none"
  /\ Kind_SU2 = "none"
  /\ nFFDBox_all = 0
  /\ nOwned = <<>>
  /\ rankStep = <<>>
  /\ iLocal = <<>>
  /\ rankAt = <<>>
  /\ entered = <<>>

PassIdle ==
  /\ atLevel = 0
  /\ atBox = 0
  /\ passAt = "off"
  /\ passLog = <<>>

CPIdle ==
  /\ FFDTag = <<>>
  /\ index_used = {}
  /\ cpAt = "off"

PointIdle ==
  /\ Boundary = FALSE
  /\ vertex = "NULL"
  /\ vertexMap = <<>>
  /\ nDelete = 0
  /\ nInvalid = 0
  /\ GetVertexOut = <<>>
  /\ nPointCalls = 0

\* the added parts but one, idle
MoreIdleBut(part) ==
  /\ part = "mpi" \/ MpiIdle
  /\ part = "pass" \/ PassIdle
  /\ part = "cp" \/ CPIdle
  /\ part = "point" \/ PointIdle

MoreIdle == MoreIdleBut("none")

FFDIdle == BoxIdle /\ NewtonIdle /\ BernIdle /\ BinomialIdle /\ FileIdle /\ MoreIdle

\* the surface deformation routines
SurfStart == SurfInit /\ GridIdle /\ VolIdle /\ RigidIdle /\ FFDIdle

SurfSpec == SurfStart /\ [][SurfNext]_vars

\* Check_Grid
GridStart == GridInit /\ SurfIdle /\ VolIdle /\ RigidIdle /\ FFDIdle

GridSpec == GridStart /\ [][GridNext]_vars

\* the increments of SetVolume_Deformation
VolStart == VolInit /\ SurfIdle /\ GridIdle /\ RigidIdle /\ FFDIdle

VolSpec == VolStart /\ [][VolNext]_vars

\* Rigid_Translation
RigidStart == RigidInit /\ SurfIdle /\ GridIdle /\ VolIdle /\ FFDIdle

RigidSpec == RigidStart /\ [][RigidNext]_vars

\* the state of the parts outside the free-form deformation box
NoFFDIdle == SurfIdle /\ GridIdle /\ VolIdle /\ RigidIdle /\ MoreIdle

\* GetPointFFD
BoxStart == BoxInit /\ NoFFDIdle /\ NewtonIdle /\ BernIdle /\ BinomialIdle /\ FileIdle

BoxSpec == BoxStart /\ [][BoxNext]_vars

\* the state of a run that only inverts the map of a box: the mesh is not read
NewtonStart == NewtonInit /\ nDim = 3 /\ NoFFDIdle /\ BoxIdle /\ BernIdle /\ BinomialIdle /\ FileIdle

\* GetParametricCoord_Iterative
NewtonSpec == NewtonStart /\ [][NewtonNext]_vars

\* the same, the routine being run to its end
NewtonLiveSpec == NewtonSpec /\ WF_vars(NewtonNext)

\* GetBernstein and GetBernsteinDerivative
BernStart == BernInit /\ nDim = 3 /\ NoFFDIdle /\ BoxIdle /\ NewtonIdle /\ BinomialIdle /\ FileIdle

BernSpec == BernStart /\ [][BernNext]_vars

\* Binomial
BinomialStart == BinomialInit /\ nDim = 3 /\ NoFFDIdle /\ BoxIdle /\ NewtonIdle /\ BernIdle /\ FileIdle

BinomialSpec == BinomialStart /\ [][BinomialNext]_vars

\* the boxes written to the mesh file and read back
FileStart == FileInit /\ NoFFDIdle /\ BoxIdle /\ NewtonIdle /\ BernIdle /\ BinomialIdle

FileSpec == FileStart /\ [][FileNext]_vars

\* SetSurface_Deformation with a free-form design variable first
DeformStart ==
  DeformInit /\ GridIdle /\ VolIdle /\ RigidIdle /\ BoxIdle /\ NewtonIdle /\ BernIdle /\ BinomialIdle
    /\ MoreIdle

DeformSpec == DeformStart /\ [][DeformNext]_vars

\* every part that was there before the added ones, idle
OldIdle ==
  /\ nDim = 3
  /\ SurfIdle /\ GridIdle /\ VolIdle /\ RigidIdle
  /\ BoxIdle /\ NewtonIdle /\ BernIdle /\ BinomialIdle /\ FileIdle

(* ------------------------------ claims --------------------------------- *)

\* the vector Ampl * (xDispl, yDispl, zDispl) of a DISPLACEMENT design variable
DisplacementVector(i) ==
  << (DV_Value[i] * ParamDV[i][1]) \div Scale, (DV_Value[i] * ParamDV[i][2]) \div Scale,
     (DV_Value[i] * ParamDV[i][3]) \div Scale >>

\* two direct calls were made: design variable 0 with (1,0,0) without a reset
\* request, then design variable 1 with (0,1,0)
TwoDisplacementCalls ==
  /\ pc = "idle"
  /\ Len(applied) = 2
  /\ applied[1] = Call(0, FALSE)
  /\ applied[2].iDV = 1
  /\ nDV >= 2
  /\ Design_Variable[0] = "DISPLACEMENT"
  /\ Design_Variable[1] = "DISPLACEMENT"
  /\ DisplacementVector(0) = <<Scale, 0, 0>>
  /\ DisplacementVector(1) = <<0, Scale, 0>>

\* C1: SetDisplacement for design variable 0 with (1,0,0) and then for design
\* variable 1 with (0,1,0) leaves every vertex of a design-variable marker at
\* (1,1,0) when the second call requests no reset, and at (0,1,0) when it does.
C1_DisplacementAccumulatesOrResets ==
  TwoDisplacementCalls =>
    \A v \in DVVertices :
      VarCoord[v] = IF applied[2].ResetDef THEN <<0, Scale, 0>> ELSE <<Scale, Scale, 0>>

C1_Witness_Accumulated ==
  /\ TwoDisplacementCalls
  /\ ~applied[2].ResetDef
  /\ \A v \in DVVertices : VarCoord[v] = <<Scale, Scale, 0>>
  /\ \E v \in Vertices : v \notin DVVertices /\ VarCoord[v] = Zero3

\* the sum over all configured design variables of the deltas they give v
\* (the third component of SetHicksHenne's delta is not a contribution)
RECURSIVE SumOfDeltas(_, _)
SumOfDeltas(i, v) ==
  IF i = nDV THEN Zero3
  ELSE LET d == CASE Design_Variable[i] = "ROTATION" -> RotationDelta(i, v)
                  [] Design_Variable[i] = "DISPLACEMENT" -> DisplacementDelta(i, v)
                  [] Design_Variable[i] = "HICKS_HENNE" -> HicksHenneDelta(i, v, 0)
                  [] Design_Variable[i] = "COSINE_BUMP" -> CosBumpDelta(i, v)
                  [] Design_Variable[i] = "FOURIER" -> FourierDelta(i, v)
           r == SumOfDeltas(i + 1, v)
       IN <<d[1] + r[1], d[2] + r[2], d[3] + r[3]>>

\* C2: at the end of a SetSurface_Deformation pass over ROTATION, DISPLACEMENT,
\* HICKS_HENNE, COSINE_BUMP and FOURIER variables the delta of every vertex of a
\* design-variable marker is the sum of the contributions of all configured
\* design variables, whatever the order of the kinds in the list.
C2_PassSumsAllDesignVariables ==
  pc = "done" =>
    \A v \in DVVertices : \A d \in 1..2 : VarCoord[v][d] = SumOfDeltas(0, v)[d]

\* C3 as stated: every ROTATION is applied before any DISPLACEMENT, and both
\* before any bump variable.
C3_RotationBeforeDisplacementBeforeBumps ==
  \A p, q \in 1..Len(applied) :
    (pc # "idle" /\ p < q) =>
      /\ ~(Design_Variable[applied[p].iDV] = "DISPLACEMENT"
           /\ Design_Variable[applied[q].iDV] = "ROTATION")
      /\ ~(Design_Variable[applied[p].iDV] \in {"HICKS_HENNE", "COSINE_BUMP", "FOURIER"}
           /\ Design_Variable[applied[q].iDV] \in {"ROTATION", "DISPLACEMENT"})

\* C3 (amended): in the analytic branch every ROTATION and DISPLACEMENT variable
\* is applied before any HICKS_HENNE, COSINE_BUMP or FOURIER variable, whatever
\* the positions in the list; within each of the two groups the variables are
\* applied in list order, each exactly once by the end of the pass.
C3_RigidBeforeBumpsInListOrder ==
  /\ \A p, q \in 1..Len(applied) :
       (pc # "idle" /\ p < q) =>
         LET kp == Design_Variable[applied[p].iDV]
             kq == Design_Variable[applied[q].iDV]
             rigid(k) == k \in {"ROTATION", "DISPLACEMENT"}
         IN /\ ~(~rigid(kp) /\ rigid(kq))
            /\ (rigid(kp) = rigid(kq)) => applied[p].iDV < applied[q].iDV
  /\ pc = "done" => \A i \in 0..(nDV - 1) :
                      Cardinality({p \in 1..Len(applied) : applied[p].iDV = i}) = 1

\* a pass applied a DISPLACEMENT that comes after a bump variable in the list
C3_Witness_ReorderedPass ==
  /\ pc = "done"
  /\ \E p, q \in 1..Len(applied) :
       /\ p < q
       /\ applied[p].iDV > applied[q].iDV
       /\ Design_Variable[applied[p].iDV] = "DISPLACEMENT"
       /\ Design_Variable[applied[q].iDV] = "HICKS_HENNE"



(* ------------------------------ Check_Grid ----------------------------- *)

\* every rank has returned from Check_Grid
CheckGridReturned == \A r \in Ranks : cgpc[r] = "done"

\* what the element loop of rank r finds on its own elements
LocalResult(r) ==
  ElemLoop(r, 1, [Counter |-> 0, Min |-> LargeMeasure, Max |-> -LargeMeasure])

\* C4: a serial Check_Grid on a mesh one element of which has two corner ids
\* swapped reports exactly one invalid element and returns a negative minimum
\* measure, and on a mesh without a swap it reports no invalid element.
C4_InvertedElementReported ==
  (~HAVE_MPI /\ CheckGridReturned) =>
    IF inverted # <<>>
      THEN ElemCounter[MASTER_NODE] = 1 /\ cgReturn[MASTER_NODE] < 0
      ELSE ElemCounter[MASTER_NODE] = 0

\* C5: in a distributed run every rank returns the least measure of the
\* elements of all ranks, and the invalid count every rank holds is the sum
\* of the counts of the ranks.
C5_GlobalMinimumOnEveryRank ==
  (HAVE_MPI /\ CheckGridReturned) =>
    \A r \in Ranks :
      /\ cgReturn[r] = MinOver([q \in Ranks |-> LocalResult(q).Min], Ranks)
      /\ ElemCounter[r] = SumOver([q \in Ranks |-> LocalResult(q).Counter], Ranks)

(* ------------------------ SetVolume_Deformation ------------------------ *)

\* row i of the system to solve is the equation "displacement = val"
Constrained(i, val) == RowDeleted[i] /\ LinSysRes[i] = val /\ LinSysSol[i] = val

\* the vertices of the markers that carry the prescribed displacement
DeformingVertices ==
  {BoundaryVertex[m][k] : m \in {n \in VolMarkers : MarkerDeforms(n)}, k \in 1..2}

\* C6: the system solved in each increment constrains every displacement
\* component of every node of a moving (SU2_CFD) or design-variable (SU2_DEF)
\* marker to VarCoord/nNonlinearIter, and after the last increment the node
\* has moved by its VarCoord.
C6_PrescribedIncrementOnDeformingMarkers ==
  /\ vpc = "solve" =>
       \A vx \in DeformingVertices : \A d \in 0..(nDim - 1) :
         Constrained(vx.Node * nDim + d,
                     vx.VarCoord[d + 1] \div config.GridDef_Nonlinear_Iter)
  /\ (vpc = "assemble" /\ iNonlinear_Iter = config.GridDef_Nonlinear_Iter) =>
       \A vx \in DeformingVertices : \A d \in 1..nDim :
         Coord[vx.Node][d] = InitialCoord[vx.Node][d] + vx.VarCoord[d]

\* C7: with the grid held fixed, the system solved in each increment
\* constrains to zero all the displacement components of every node that has
\* a coordinate outside the box.
C7_NodesOutsideBoxFullyFixed ==
  (vpc = "solve" /\ config.Hold_GridFixed) =>
    \A p \in VolPoints :
      (\E d \in 0..(nDim - 1) : OutsideHoldBox(Coord, p, d)) =>
        \A d \in 0..(nDim - 1) : Constrained(p * nDim + d, 0)

\* the axis normal to the plane of marker m: the one along which its nodes
\* lie nearest to the origin, the later axis on a tie, in 2D as in 3D
NormalAxis(m) ==
  LET M == [d \in 0..(nDim - 1) |-> MeanCoord2(Coord, m, d + 1)]
  IN CHOOSE a \in 0..(nDim - 1) :
       /\ \A d \in 0..(nDim - 1) : M[a] <= M[d]
       /\ \A d \in (a + 1)..(nDim - 1) : M[d] > M[a]

\* C8: after SetBoundaryDisplacements the displacement normal to the plane is
\* constrained to zero at every node of a symmetry-plane marker, in 2D and 3D.
C8_SymmetryNormalConstrained ==
  vpc = "domain" =>
    \A m \in VolMarkers :
      config.Marker_All_KindBC[m] = "SYMMETRY_PLANE" =>
        \A k \in 1..Len(BoundaryVertex[m]) :
          Constrained(BoundaryVertex[m][k].Node * nDim + NormalAxis(m), 0)

(* -------------------------- Rigid_Translation -------------------------- *)

\* the coordinates and grid velocities call k left behind
AfterCall(k) ==
  IF k < Len(calls) THEN calls[k + 1].before
  ELSE [Coord |-> rCoord, GridVel |-> GridVel,
        Motion_Origin |-> Motion_Origin, RefOriginMoment |-> RefOriginMoment]

\* the rate the routine reads
ConfiguredRate == Translation_Rate[EffectiveZone(rconfig, iZone)]

\* the first nDim components of the grid velocity of every node are the rate
VelocityIsRate(vel) ==
  \A p \in RigidPoints : \A d \in 1..nDim : vel[p][d] = ConfiguredRate[d]

\* C9 as stated: a call with a configured time step of zero leaves the
\* coordinates of every node alone and the grid velocity of every node at the
\* configured rate.
C9_ZeroStepKeepsCoordAndSetsVelocity ==
  \A k \in 1..Len(calls) :
    (calls[k].routine = "TRANSLATION" /\ calls[k].deltaT = 0) =>
      /\ AfterCall(k).Coord = calls[k].before.Coord
      /\ VelocityIsRate(AfterCall(k).GridVel)

\* C9 as the code has it: a call whose time step is zero (the configured one,
\* or period/nTimeInstances in time-spectral mode) leaves the coordinates of
\* every node alone; a direct run then holds the configured rate as the grid
\* velocity of every node, and an adjoint run does not touch the velocity.
C9_ZeroStepDirectSetsVelocityAdjointKeepsIt ==
  \A k \in 1..Len(calls) :
    (/\ calls[k].routine = "TRANSLATION"
     /\ EffectiveDeltaT(rconfig, calls[k].deltaT) = 0) =>
      /\ AfterCall(k).Coord = calls[k].before.Coord
      /\ ~rconfig.Adjoint => VelocityIsRate(AfterCall(k).GridVel)
      /\ rconfig.Adjoint => AfterCall(k).GridVel = calls[k].before.GridVel

\* a direct run made a call with a zero step after iteration 0, and the
\* velocity it found was not the rate
C9_Witness_ZeroStepCall ==
  \E k \in 1..Len(calls) :
    /\ calls[k].routine = "TRANSLATION"
    /\ calls[k].deltaT = 0
    /\ calls[k].iter >= 1
    /\ rconfig.Unsteady_Simulation = "TIME_STEPPING"
    /\ ~rconfig.Adjoint
    /\ ~VelocityIsRate(calls[k].before.GridVel)
    /\ VelocityIsRate(AfterCall(k).GridVel)
    /\ AfterCall(k).Coord = calls[k].before.Coord

\* calls k and k+1 are calls of Rigid_Translation with the same time step
HalfSteps(k) ==
  /\ k + 1 <= Len(calls)
  /\ calls[k].routine = "TRANSLATION"
  /\ calls[k + 1].routine = "TRANSLATION"
  /\ calls[k].deltaT = calls[k + 1].deltaT

\* the coordinates one call with twice the step of call k, made in its place,
\* would have left
AfterFullStep(k) ==
  MovedCoord(calls[k].before.Coord,
             DeltaX(rconfig, iZone, calls[k].iter, 2 * calls[k].deltaT))

\* C10 as stated: two successive calls with half a step leave every node
\* where one call with the full step would.
C10_TwoHalfStepsEqualFullStep ==
  \A k \in 1..Len(calls) : HalfSteps(k) => AfterCall(k + 1).Coord = AfterFullStep(k)

\* C10 as the code has it: outside time-spectral mode, two successive calls
\* with half a step, the first of them after iteration 0, leave every node
\* where one call with the full step would.
C10_TwoHalfStepsEqualFullStepAfterStart ==
  \A k \in 1..Len(calls) :
    (/\ HalfSteps(k)
     /\ rconfig.Unsteady_Simulation # "TIME_SPECTRAL"
     /\ calls[k].iter >= 1)
      => AfterCall(k + 1).Coord = AfterFullStep(k)

\* two half steps after iteration 0 that moved the grid
C10_Witness_TwoHalfSteps ==
  \E k \in 1..Len(calls) :
    /\ HalfSteps(k)
    /\ calls[k].deltaT = 1
    /\ calls[k].iter >= 1
    /\ rconfig.Unsteady_Simulation # "TIME_SPECTRAL"
    /\ AfterCall(k + 1).Coord # calls[k].before.Coord
    /\ AfterCall(k + 1).Coord = AfterFullStep(k)

(* ------------------- Rigid_Plunging, Rigid_Translation ------------------ *)

\* every call so far was one of Rigid_Plunging or Rigid_Translation
OnlyTranslations == \A k \in 1..Len(calls) : calls[k].routine \in {"PLUNGING", "TRANSLATION"}

\* the position of node p relative to the point o, in the coordinates of the mesh
RelativeTo(C, p, o) == [d \in 1..nDim |-> C[p][d] - o[d]]

\* C11: over any sequence of calls of Rigid_Plunging and Rigid_Translation the
\* position of every node relative to the motion origin of the zone the calls
\* read, and relative to the moment origin of the monitored marker, stays
\* what it was before the first call: each call moves the origins by the
\* deltaX it moves the nodes by.
C11_OriginsFollowTheNodes ==
  OnlyTranslations =>
    \A p \in RigidPoints :
      /\ RelativeTo(rCoord, p, Motion_Origin[EffectiveZone(rconfig, iZone)])
           = RelativeTo(RigidInitialCoord, p, Zero3)
      /\ RelativeTo(rCoord, p, RefOriginMoment) = RelativeTo(RigidInitialCoord, p, Zero3)

\* a plunge and a translation were made, in either order, and both moved the grid
C11_Witness_PlungeAndTranslate ==
  /\ OnlyTranslations
  /\ \E j, k \in 1..Len(calls) :
       /\ calls[j].routine = "PLUNGING"
       /\ calls[k].routine = "TRANSLATION"
       /\ AfterCall(j).Coord # calls[j].before.Coord
       /\ AfterCall(k).Coord # calls[k].before.Coord
  /\ nDim = 3
  /\ RefOriginMoment # Zero3
  /\ rCoord # RigidInitialCoord

\* the calls of Rigid_Rotation made so far
RotationCalls == {k \in 1..Len(calls) : calls[k].routine = "ROTATION"}

\* the center call k rotated about
CenterOfCall(k) == calls[k].before.Motion_Origin[EffectiveZone(rconfig, iZone)]

\* the rotated position of node p relative to the center, as call k computed it
RotatedPosition(k, p) ==
  LET Omega == Rotation_Rate[EffectiveZone(rconfig, iZone)]
  IN RotCoord(RotMatrix(Omega, RotationDt(rconfig, calls[k].iter, calls[k].deltaT)),
              FromCenter(calls[k].before.Coord[p], CenterOfCall(k)))

\* the angular rate crossed with the rotated position of node p in call k
OmegaCrossR(k, p) ==
  CrossProduct(Rotation_Rate[EffectiveZone(rconfig, iZone)], RotatedPosition(k, p))

\* call k left every node at its rotated position about the center
CoordinatesRotated(k) ==
  \A p \in RigidPoints : \A d \in 1..nDim :
    AfterCall(k).Coord[p][d] = RotatedPosition(k, p)[d] + CenterOfCall(k)[d]

\* C12: in a non-adjoint run Rigid_Rotation rotates the coordinates of every
\* node about the center and adds the angular rate crossed with the rotated
\* position to the grid velocity the node held before the call; in an adjoint
\* run the coordinates are rotated and the grid velocity is left as it was.
C12_RotationAddsCrossProductToVelocity ==
  \A k \in RotationCalls :
    /\ CoordinatesRotated(k)
    /\ \A p \in RigidPoints :
         IF rconfig.Adjoint
           THEN AfterCall(k).GridVel[p] = calls[k].before.GridVel[p]
           ELSE \A d \in 1..nDim :
                  AfterCall(k).GridVel[p][d]
                    = calls[k].before.GridVel[p][d] + OmegaCrossR(k, p)[d]

\* C12 as stated: in a non-adjoint run the grid velocity of every node after
\* Rigid_Rotation is the angular rate crossed with the rotated position, whatever
\* velocity the node held before; in an adjoint run the coordinates are rotated
\* and the velocity is not overwritten.
C12_RotationSetsVelocityToCrossProduct ==
  \A k \in RotationCalls :
    /\ CoordinatesRotated(k)
    /\ \A p \in RigidPoints :
         IF rconfig.Adjoint
           THEN AfterCall(k).GridVel[p] = calls[k].before.GridVel[p]
           ELSE \A d \in 1..nDim : AfterCall(k).GridVel[p][d] = OmegaCrossR(k, p)[d]

\* a direct run made a rotation that turned the grid, on nodes that held a
\* velocity, and the cross product is not zero
C12_Witness_DirectRotation ==
  \E k \in RotationCalls :
    /\ ~rconfig.Adjoint
    /\ AfterCall(k).Coord # calls[k].before.Coord
    /\ \E p \in RigidPoints :
         /\ OmegaCrossR(k, p) # Zero3
         /\ calls[k].before.GridVel[p] # Zero3

\* the point lies in the closed box
InBox(corners, C) == \A d \in 1..3 : corners[0][d] <= C[d] /\ C[d] <= corners[6][d]

\* the geometric center of the box (its sides are even)
BoxCenter(corners) == [d \in 1..3 |-> (corners[0][d] + corners[6][d]) \div 2]

\* the point lies in the box, one step of the lattice or less from corner c in
\* every direction, and is not the corner
NearCorner(corners, C, c) ==
  /\ InBox(corners, C)
  /\ C # corners[c]
  /\ \A d \in 1..3 : Abs(C[d] - corners[c][d]) <= 1

\* C13: GetPointFFD returns true exactly when one of the five tetrahedra
\* accepts the point; for an axis-aligned box it returns true for the center
\* of the box and for the points of the box next to each of the eight corners,
\* and false for every point outside the box.
C13_PointInBoxIffATetrahedronAccepts ==
  Inside # <<>> =>
    LET C == QueryCoord(pointCoord)
        corners == Coord_Corner_Points
    IN /\ Inside[1] = (\E iVar \in 0..4 : TetrahedronAccepts(corners, C, iVar))
       /\ C = BoxCenter(corners) => Inside[1]
       /\ \A c \in 0..7 : NearCorner(corners, C, c) => Inside[1]
       /\ ~InBox(corners, C) => ~Inside[1]

\* the point next to corner 6, one step inside in every direction, was asked
\* about in 3D: only the fifth tetrahedron holds it
C13_Witness_NextToCorner6 ==
  /\ Inside # <<>>
  /\ nDim = 3
  /\ pointCoord = [d \in 1..3 |-> Coord_Corner_Points[6][d] - 1]
  /\ ~\E iVar \in 0..3 : TetrahedronAccepts(Coord_Corner_Points, pointCoord, iVar)
  /\ Inside[1]

\* C14: within one call of GetParametricCoord_Iterative at most Random_Trials
\* random guesses are drawn, and once Random_Trials restarts have been
\* counted no further guess is drawn.
C14_AtMostRandomTrialsRestarts ==
  /\ [](drawn <= Random_Trials)
  /\ [][RandonCounter >= Random_Trials => drawn' = drawn]_vars

\* C15: GetParametricCoord_Iterative comes to its end: it makes no more than
\* nFFD_Iter * Random_Trials iterations and then returns the estimate it holds,
\* whether the search converged or not.
C15_ReturnsAfterBoundedIterations ==
  /\ <>(npc = "done")
  /\ [](iterFFD <= nFFD_Iter * Random_Trials)
  /\ [](npc = "done" => returned = <<ParamCoord>>)

\* the routine returned an estimate after the loop ran out of iterations
\* without converging, every restart used
C15_Witness_ReturnedUnconverged ==
  /\ npc = "done"
  /\ nFFD_Iter = MaxFFD_Iter
  /\ iterFFD = nFFD_Iter * Random_Trials
  /\ RandonCounter >= Random_Trials
  /\ Len(cout) = 2
  /\ returned = <<ParamCoord>>

\* the sum of the values of a function over the integers lo..hi
RECURSIVE SumFrom(_, _, _)
SumFrom(f, lo, hi) == IF lo > hi THEN 0 ELSE f[lo] + SumFrom(f, lo + 1, hi)

\* C16: for any degree n and any t in [0,1] the values GetBernstein(n, i, t)
\* over i = 0..n sum to 1, and where the first and the last basis function
\* differ (n >= 1) B_0^n(0) = 1, B_n^n(0) = 0, B_n^n(1) = 1 and B_0^n(1) = 0.
C16_PartitionOfUnity ==
  basis # <<>> =>
    /\ SumFrom(basis, 0, val_n) = BernUnit
    /\ (val_n >= 1 /\ val_t = 0) => (basis[0] = BernUnit /\ basis[val_n] = 0)
    /\ (val_n >= 1 /\ val_t = TDen) => (basis[val_n] = BernUnit /\ basis[0] = 0)

\* the binomial coefficient n over k
Choose(n, k) == Factorial(n) \div (Factorial(k) * Factorial(n - k))

\* the coefficient of t^j in B_i^n, i <= j <= n
MonomialCoefficient(n, i, j) ==
  (IF (j - i) % 2 = 0 THEN 1 ELSE -1) * Choose(n, j) * Choose(j, i)

\* the derivative of order order of B_i^n at t, term by term of its monomials
TrueDerivative(n, i, t, order) ==
  LET term == [j \in 0..n |->
                 IF j < i \/ j < order THEN 0
                 ELSE MonomialCoefficient(n, i, j)
                        * (Factorial(j) \div Factorial(j - order))
                        * Pow(t, j - order) * (BernUnit \div TDen^(j - order))]
  IN SumFrom(term, 0, n)

\* C17: GetBernsteinDerivative(n, i, t, order) is the derivative of order order
\* of B_i^n at t, for every degree n, every index 0 <= i <= n and every
\* order >= 0.
C17_DerivativeOfTheBasis ==
  derivative # <<>> =>
    derivative[1] = TrueDerivative(val_n, val_i, val_t, val_order)

\* a * s for a small whole number s, in the width of a
RECURSIVE TimesFrom(_, _, _, _)
TimesFrom(a, s, k, carry) ==
  IF k > Len(a) THEN <<>>
  ELSE <<(a[k] * s + carry) % LimbBase>>
         \o TimesFrom(a, s, k + 1, (a[k] * s + carry) \div LimbBase)

\* a divided by a small whole number d, from the highest limb down
RECURSIVE DividedFrom(_, _, _, _)
DividedFrom(a, d, k, rem) ==
  IF k < 1 THEN <<>>
  ELSE DividedFrom(a, d, k - 1, (rem * LimbBase + a[k]) % d)
         \o <<(rem * LimbBase + a[k]) \div d>>

\* the binomial coefficient n over m from C(n,k-1) = acc on, by
\* C(n,k) = C(n,k-1)(n-k+1)/k
RECURSIVE ChooseFrom(_, _, _, _)
ChooseFrom(n, m, k, acc) ==
  IF k > m THEN acc
  ELSE LET next == DividedFrom(TimesFrom(acc, n - k + 1, 1, 0), k, Len(acc), 0)
       IN IF Len(next) = 0 THEN next ELSE ChooseFrom(n, m, k + 1, next)

\* the binomial coefficient n over m in limbs limbs
ChooseLimbs(n, m, limbs) == ChooseFrom(n, m, 1, Limbs(1, limbs))

\* C18: Binomial(n, m) returns the binomial coefficient of n and m, for every
\* 0 <= m <= n with n below the size of the buffer, and uses no entry outside
\* the buffer.
C18_BinomialIsExact ==
  bin_value # <<>> =>
    /\ bin_value[1] \o <<0, 0>> = ChooseLimbs(bin_n, bin_m, ULongLimbs + 2)
    /\ DOMAIN binomial \subseteq 0..(BufferSize - 1)


(* ------------------------------ C19 ------------------------------------ *)

\* the coordinate read agrees with the coordinate held to the FilePrecision
\* significant digits the writer keeps, and is the same number when the
\* coordinate held has no more digits than that
SameToPrecision(read, held) ==
  IF NumDigits(Abs(held)) <= FilePrecision THEN read = held
  ELSE 2 * Abs(read - held) <= 10^(NumDigits(Abs(held)) - FilePrecision)

\* the box read has the tag, the level, the degrees, the parents, the
\* children, the corners and the control points of the box held
SameBox(read, held) ==
  /\ read.Tag = held.Tag
  /\ read.Level = held.Level
  /\ <<read.lOrder, read.mOrder, read.nOrder>> = <<held.lOrder, held.mOrder, held.nOrder>>
  /\ read.ParentFFDBox = held.ParentFFDBox
  /\ read.ChildFFDBox = held.ChildFFDBox
  /\ DOMAIN read.Coord_Corner_Points = DOMAIN held.Coord_Corner_Points
  /\ \A c \in DOMAIN held.Coord_Corner_Points : \A d \in 1..3 :
       SameToPrecision(read.Coord_Corner_Points[c][d], held.Coord_Corner_Points[c][d])
  /\ DOMAIN read.Coord_Control_Points = DOMAIN held.Coord_Control_Points
  /\ \A ijk \in DOMAIN held.Coord_Control_Points : \A d \in 1..3 :
       SameToPrecision(read.Coord_Control_Points[ijk][d], held.Coord_Control_Points[ijk][d])

\* C19: the boxes WriteFFDInfo appends to the mesh file are the boxes
\* ReadFFDInfo reads back, in 2D and in 3D: as many boxes, each with the same
\* tag, level, degrees, parent tags and child tags, and every coordinate of
\* its corners and of its control points to the digits that were written
C19_BoxesReadAreTheBoxesWritten ==
  fpc = "done" =>
    /\ nFFDBox_in = Len(FFDBox)
    /\ Len(FFDBox_in) = Len(FFDBox)
    /\ \A iFFDBox \in 1..Len(FFDBox) : SameBox(FFDBox_in[iFFDBox], FFDBox[iFFDBox])

\* two boxes of a 2D mesh were written and read back, the second after the
\* surface points of the first; a coordinate lost the digits beyond the precision
C19_Witness_TwoBoxesOfA2DMesh ==
  /\ fpc = "done"
  /\ nDim = 2
  /\ Len(FFDBox) = 2
  /\ FFDBox[1].SurfacePoints # <<>>
  /\ FFDBox_in[2].Tag = Tag_TIP_2
  /\ \E ijk \in DOMAIN FFDBox[2].Coord_Control_Points :
       FFDBox_in[2].Coord_Control_Points[ijk] # FFDBox[2].Coord_Control_Points[ijk]


(* ------------------------------ C20 ------------------------------------ *)

\* the mesh file defines no box: it has no box section, or one of no box
FileOfNoBox == mesh_file \in FilesOf(NoBoxLines)

\* the mesh file has boxes, none of them with control points
FileOfUnsetBoxes == mesh_file \in FilesOf(UnsetBoxLines(nDim))

\* the process has ended with a diagnostic as its last word
EndedWithDiagnostic ==
  /\ exited
  /\ pc = "exit"
  /\ said # <<>>
  /\ said[Len(said)] \in {"There are not FFD boxes in the mesh file!!",
                          "There is not FFD box definition in the mesh file, run DV_KIND=FFD_SETTING first !!"}

\* the case the process must end in
MustEnd ==
  \/ FileOfNoBox /\ Design_Variable[0] \in {"FFD_SETTING"} \cup FFDShapeKinds
  \/ FileOfUnsetBoxes /\ Design_Variable[0] \in FFDShapeKinds

\* C20: with FFD_SETTING or a free-form shape kind as the first design
\* variable and a mesh file of no box, and with a shape kind and boxes that no
\* FFD_SETTING pass has given control points, SetSurface_Deformation, once it
\* has read the file, ends the process with a diagnostic, and no step of it
\* changes a delta of a boundary vertex.
C20_EndsBeforeAnyDelta ==
  /\ [](MustEnd /\ pc \notin {"idle", "read"} => EndedWithDiagnostic)
  /\ [][MustEnd => VarCoord' = VarCoord]_vars

\* a shape kind met boxes without control points and the process ended
C20_Witness_ShapeKindBeforeSetting ==
  /\ Design_Variable[0] = "FFD_CAMBER"
  /\ FileOfUnsetBoxes
  /\ nFFDBox_in = 1
  /\ exited
  /\ VarCoord[1][1] = Stale


(* ---------------- SetNACA_4Digits, SetParabolic, SetObstacle ------------ *)

\* the design variables that take the whole boundary in one call
SingleShapeKinds == {"NACA_4DIGITS", "PARABOLIC", "OBSTACLE"}

\* the quotient a / b of two whole numbers, b of either sign, rounded down
Quotient(a, b) == IF b < 0 THEN (-a) \div (-b) ELSE a \div b

\* 100 sqrt(x), rounded down
Sqrt100(x) == CHOOSE r \in 0..(100 * (x + 1)) : r * r <= 10^4 * x /\ 10^4 * x < (r + 1) * (r + 1)

\* Ycurv of SetNACA_4Digits at the abscissa X, in fixed point: A is
\* ParamDV(0,0) (100 Ya), B is ParamDV(0,1) (10 Xa)
NACA_Ycurv(A, B, X) ==
  LET D == 10 * Scale
  IN IF 10 * X < B
       THEN Quotient((20 * B * X - 100 * X * X) * A, 100 * B * B)
       ELSE Quotient((D * D - 2 * B * D + 20 * B * X - 100 * X * X) * A, 100 * (D - B) * (D - B))

\* Yesp of SetNACA_4Digits at the abscissa X, in fixed point: T is
\* ParamDV(0,2) (100 t)
NACA_Yesp(T, X) ==
  LET root == (14845 * Sqrt100(X * Scale) * Scale^3) \div 100
      poly == root - 6300 * X * Scale^3 - 17580 * X^2 * Scale^2
                + 14215 * X^3 * Scale - 5180 * X^4
  IN Quotient(T * poly, 10^6 * Scale^4)

\* the delta SetNACA_4Digits stores on vertex v
NACA_4DigitsDelta(v) ==
  LET Ycurv == NACA_Ycurv(ParamDV[0][1], ParamDV[0][2], VertexCoord[v][1])
      Yesp == NACA_Yesp(ParamDV[0][3], VertexCoord[v][1])
  IN IF Marker_All_DV[VertexMarker[v]] # YES THEN Zero3
     ELSE IF VertexNormal[v][2] > 0 THEN <<0, (Ycurv + Yesp) - VertexCoord[v][2], 0>>
     ELSE IF VertexNormal[v][2] < 0 THEN <<0, (Ycurv - Yesp) - VertexCoord[v][2], 0>>
     ELSE Zero3

\* the delta SetParabolic stores on vertex v: c is ParamDV(0,0), 100 t is
\* ParamDV(0,1)
ParabolicDelta(v) ==
  LET c == ParamDV[0][1]
      T == ParamDV[0][2]
      X == VertexCoord[v][1]
      above == Quotient(T * (X * X - X * Scale), 200 * (c * c - c * Scale))
      below == Quotient(T * (X * Scale - X * X), 200 * (c * c - c * Scale))
  IN IF Marker_All_DV[VertexMarker[v]] # YES THEN Zero3
     ELSE IF VertexNormal[v][2] > 0 THEN <<0, above - VertexCoord[v][2], 0>>
     ELSE IF VertexNormal[v][2] < 0 THEN <<0, below - VertexCoord[v][2], 0>>
     ELSE Zero3

\* the delta SetObstacle stores on vertex v: H is ParamDV(0,0), L is ParamDV(0,1)
ObstacleDelta(v) ==
  LET H == ParamDV[0][1]
      L == ParamDV[0][2]
      xCoord == VertexCoord[v][1]
  IN IF Marker_All_DV[VertexMarker[v]] # YES THEN Zero3
     ELSE IF xCoord > 0 /\ xCoord < L
       THEN <<0, Quotient(27 * H * xCoord * (xCoord - L) * (xCoord - L), 4 * L * L * L), 0>>
     ELSE Zero3

\* ParamDV(0, .) of the three kinds: NACA 0012, 2412 and 4415; parabolas of
\* center 1/2 and 2; obstacles of length 1, 2 and 4
SingleShapeParams(kind) ==
  CASE kind = "NACA_4DIGITS" ->
         { <<0, 0, 12 * Scale, 0, 0, 0>>, <<2 * Scale, 4 * Scale, 12 * Scale, 0, 0, 0>>,
           <<4 * Scale, 4 * Scale, 15 * Scale, 0, 0, 0>> }
    [] kind = "PARABOLIC" ->
         { <<Scale \div 2, 100 * Scale, 0, 0, 0, 0>>, <<2 * Scale, 100 * Scale, 0, 0, 0, 0>>,
           <<2 * Scale, 400 * Scale, 0, 0, 0, 0>> }
    [] kind = "OBSTACLE" ->
         { <<Scale, Scale, 0, 0, 0, 0>>, <<Scale, 2 * Scale, 0, 0, 0, 0>>,
           <<4 * Scale, 4 * Scale, 0, 0, 0, 0>> }

ShapeInit ==
  /\ nDim \in {2, 3}
  /\ nDV \in 1..MaxDV
  /\ \E kind \in SingleShapeKinds :
       /\ Design_Variable = [i \in 0..(nDV - 1) |-> kind]
       /\ \E params \in SingleShapeParams(kind) : ParamDV = [i \in 0..(nDV - 1) |-> params]
  /\ DV_Value = [i \in 0..(nDV - 1) |-> Scale]
  /\ \E s \in {0, Stale} :
       VarCoord = [v \in Vertices |-> [d \in 1..3 |-> IF d <= nDim THEN s ELSE 0]]
  /\ pc = "idle"
  /\ iDV = 0
  /\ applied = <<>>
  /\ FileIdle

\* what no step of the three routines changes
shapeFixed == <<nDim, nDV, Design_Variable, DV_Value, ParamDV, iDV, applied, FFDBox, nLevel,
                writerOfPartition, mesh_file, FFDBox_in, nFFDBox_in, nLevel_in,
                FFDBoxDefinition, fpc>>

\* GetnDV() != 1 at the head of each of the three routines: the message is
\* put on cout and cin.get() waits for a character
NotPreparedForMultiple ==
  /\ pc = "idle"
  /\ Design_Variable[0] \in SingleShapeKinds
  /\ nDV # 1
  /\ said' = Append(said, "This kind of design variable is not prepared for multiple deformations.")
  /\ pc' = "cin.get"
  /\ UNCHANGED <<VarCoord, exited>>
  /\ UNCHANGED shapeFixed
  /\ UNCHANGED notDeform

\* the routine is at its loop over the vertices: it was entered with one
\* design variable, or cin.get() has returned (a character or the end of input)
AtVertexLoop == (pc = "idle" /\ nDV = 1) \/ pc = "cin.get"

\* the loop of a routine: SetVarCoord on every vertex of every marker
StoreDelta(Delta(_)) ==
  /\ VarCoord' = [v \in Vertices |-> SetVarCoord(VarCoord[v], Delta(v))]
  /\ pc' = "done"
  /\ UNCHANGED <<said, exited>>
  /\ UNCHANGED shapeFixed
  /\ UNCHANGED notDeform

SetNACA_4Digits ==
  /\ AtVertexLoop
  /\ Design_Variable[0] = "NACA_4DIGITS"
  /\ StoreDelta(NACA_4DigitsDelta)

SetParabolic ==
  /\ AtVertexLoop
  /\ Design_Variable[0] = "PARABOLIC"
  /\ StoreDelta(ParabolicDelta)

SetObstacle ==
  /\ AtVertexLoop
  /\ Design_Variable[0] = "OBSTACLE"
  /\ StoreDelta(ObstacleDelta)

ShapeNext ==
  \/ NotPreparedForMultiple
  \/ SetNACA_4Digits
  \/ SetParabolic
  \/ SetObstacle

\* SetSurface_Deformation with NACA_4DIGITS, PARABOLIC or OBSTACLE first
ShapeStart ==
  ShapeInit /\ GridIdle /\ VolIdle /\ RigidIdle /\ BoxIdle /\ NewtonIdle /\ BernIdle /\ BinomialIdle
    /\ MoreIdle

ShapeSpec == ShapeStart /\ [][ShapeNext]_vars

(* ------------------------------ C21 ------------------------------------ *)

\* C21: with more than one design variable configured, SetNACA_4Digits,
\* SetParabolic and SetObstacle end the process with a diagnostic, and no
\* step of them changes a delta of a boundary vertex.
C21_AbortsBeforeAnyDelta ==
  /\ [](nDV > 1 /\ pc # "idle" => exited /\ said # <<>>)
  /\ [][nDV > 1 => VarCoord' = VarCoord]_vars


(* ------------- the collectives of Check_Grid, SetHicksHenne, ReadFFDInfo - *)

\* the most elements, vertices or surface points a rank owns
MaxLocal == 1

\* the ranks of the run
Processors == 0..1

\* a stretch of a routine between two collectives: a loop over what the rank
\* owns, or straight code
LocalLoop(what) == [kind |-> "loop", what |-> what]

LocalCode(what) == [kind |-> "code", what |-> what]

\* a collective operation on MPI_COMM_WORLD
Collective(what) == [kind |-> "collective", what |-> what]

\* Check_Grid of a build with MPI: the loop over the elements, then the three
\* reductions
Check_GridSteps ==
  << LocalLoop("iElem"),
     Collective("MPI_Allreduce MPI_SUM ElemCounter"),
     Collective("MPI_Allreduce MPI_MAX MaxVolume"),
     Collective("MPI_Allreduce MPI_MIN MinVolume") >>

\* SetHicksHenne of a build with MPI: the reset loop, vertex[iMarker][0] of
\* the design-variable marker, the loop for the trailing point, the gather of
\* the trailing points, the loop for the chord, the gather of the leading
\* points, the loop that adds the bump
SetHicksHenneSteps ==
  << LocalLoop("reset"),
     LocalCode("vertex[iMarker][0]"),
     LocalLoop("TPCoord"),
     Collective("MPI_Allgather TPCoord"),
     LocalLoop("Chord"),
     Collective("MPI_Allgather LPCoord"),
     LocalLoop("bump") >>

\* ReadFFDInfo of a build with MPI: for each box of the file the loop over
\* its surface points, then the sum of the points when the caller is not the
\* partitioner
RECURSIVE ReadFFDInfoSteps(_, _)
ReadFFDInfoSteps(nBox, kind) ==
  IF nBox = 0 THEN <<>>
  ELSE <<LocalLoop("iSurfacePoints")>>
         \o (IF kind # "SU2_PRT" THEN <<Collective("MPI_Allreduce MPI_SUM nSurfPoints")>> ELSE <<>>)
         \o ReadFFDInfoSteps(nBox - 1, kind)

\* the steps of the routine the ranks run
Steps ==
  CASE mpiRoutine = "Check_Grid" -> Check_GridSteps
    [] mpiRoutine = "SetHicksHenne" -> SetHicksHenneSteps
    [] mpiRoutine = "ReadFFDInfo" -> ReadFFDInfoSteps(nFFDBox_all, Kind_SU2)

MpiInit ==
  /\ mpiRoutine \in {"Check_Grid", "SetHicksHenne", "ReadFFDInfo"}
  /\ Kind_SU2 \in (IF mpiRoutine = "ReadFFDInfo" THEN {"SU2_PRT", "SU2_MDC"} ELSE {"SU2_MDC"})
  /\ nFFDBox_all \in (IF mpiRoutine = "ReadFFDInfo" THEN 0..MaxFFDBoxes ELSE {0})
  /\ nOwned \in [Processors -> 0..MaxLocal]
  /\ rankStep = [r \in Processors |-> 1]
  /\ iLocal = [r \in Processors |-> 0]
  /\ rankAt = [r \in Processors |-> "work"]
  /\ entered = [r \in Processors |-> <<>>]

mpiFixed == <<mpiRoutine, Kind_SU2, nFFDBox_all, nOwned>>

\* the rank is at step kind of the routine
AtStep(r, kind) ==
  /\ rankAt[r] = "work"
  /\ rankStep[r] <= Len(Steps)
  /\ Steps[rankStep[r]].kind = kind

\* the rank goes on to the next step of the routine
NextStep(r) ==
  /\ rankStep' = [rankStep EXCEPT ![r] = @ + 1]
  /\ iLocal' = [iLocal EXCEPT ![r] = 0]

\* one pass of a loop over what the rank owns
LoopPass(r) ==
  /\ AtStep(r, "loop")
  /\ iLocal[r] < nOwned[r]
  /\ iLocal' = [iLocal EXCEPT ![r] = @ + 1]
  /\ UNCHANGED <<rankStep, rankAt, entered>>
  /\ UNCHANGED mpiFixed
  /\ UNCHANGED notMpi

\* the loop over what the rank owns ends
LoopEnd(r) ==
  /\ AtStep(r, "loop")
  /\ iLocal[r] = nOwned[r]
  /\ NextStep(r)
  /\ UNCHANGED <<rankAt, entered>>
  /\ UNCHANGED mpiFixed
  /\ UNCHANGED notMpi

\* Coord_ = boundary->vertex[iMarker][0]->GetCoord() and the read of
\* Coord_[0], Coord_[1]: the marker has a vertex 0 on this rank, or the
\* pointer read past the empty array led to memory that can be read
ReadVertex0(r) ==
  /\ AtStep(r, "code")
  /\ NextStep(r)
  /\ UNCHANGED <<rankAt, entered>>
  /\ UNCHANGED mpiFixed
  /\ UNCHANGED notMpi

\* the same read on a rank that owns no vertex of the design-variable marker:
\* the pointer read past the empty array led to no memory, the rank dies
FaultAtVertex0(r) ==
  /\ AtStep(r, "code")
  /\ nOwned[r] = 0
  /\ rankAt' = [rankAt EXCEPT ![r] = "fault"]
  /\ UNCHANGED <<rankStep, iLocal, entered>>
  /\ UNCHANGED mpiFixed
  /\ UNCHANGED notMpi

\* the rank enters the collective and waits in it
EnterCollective(r) ==
  /\ AtStep(r, "collective")
  /\ entered' = [entered EXCEPT ![r] = Append(@, Steps[rankStep[r]].what)]
  /\ rankAt' = [rankAt EXCEPT ![r] = "collective"]
  /\ UNCHANGED <<rankStep, iLocal>>
  /\ UNCHANGED mpiFixed
  /\ UNCHANGED notMpi

\* every rank has entered the collective the rank waits in: the rank leaves it
LeaveCollective(r) ==
  /\ rankAt[r] = "collective"
  /\ \A q \in Processors :
       /\ Len(entered[q]) >= Len(entered[r])
       /\ entered[q][Len(entered[r])] = entered[r][Len(entered[r])]
  /\ rankAt' = [rankAt EXCEPT ![r] = "work"]
  /\ NextStep(r)
  /\ UNCHANGED entered
  /\ UNCHANGED mpiFixed
  /\ UNCHANGED notMpi

\* the rank is past the last step: the routine returns
Return(r) ==
  /\ rankAt[r] = "work"
  /\ rankStep[r] > Len(Steps)
  /\ rankAt' = [rankAt EXCEPT ![r] = "returned"]
  /\ UNCHANGED <<rankStep, iLocal, entered>>
  /\ UNCHANGED mpiFixed
  /\ UNCHANGED notMpi

MpiNext ==
  \E r \in Processors :
    \/ LoopPass(r)
    \/ LoopEnd(r)
    \/ ReadVertex0(r)
    \/ FaultAtVertex0(r)
    \/ EnterCollective(r)
    \/ LeaveCollective(r)
    \/ Return(r)

MpiStart == MpiInit /\ OldIdle /\ MoreIdleBut("mpi")

MpiSpec == MpiStart /\ [][MpiNext]_vars

(* ------------------------------ C22 ------------------------------------ *)

\* the rank has entered its last collective: it returned or it died
Ended(r) == rankAt[r] \in {"returned", "fault"}

\* C22: in Check_Grid, SetHicksHenne and ReadFFDInfo every rank enters the
\* same collectives in the same order whatever it owns locally: no rank waits
\* in a collective that another rank never enters, and two ranks that have
\* ended have entered the same collectives.
C22_SameCollectivesOnEveryRank ==
  \A r, q \in Processors :
    /\ rankAt[r] = "collective" /\ Ended(q) => Len(entered[q]) >= Len(entered[r])
    /\ Ended(r) /\ Ended(q) => entered[r] = entered[q]


(* ------------- SetSurface_Deformation: the apply-deformation pass ------- *)

\* a box as the pass reads it: its tag, its level, the tags of its parents
\* and of its children
PassBox(tag, level, parents, children) ==
  [Tag |-> tag, Level |-> level, ParentFFDBox |-> parents, ChildFFDBox |-> children]

\* the boxes of the runs, in the order of the file: a box and its child in
\* either order, a box with two children, a box alone, a chain of three
\* levels, a box whose child tag names no box, a box whose parent tag names
\* no box
PassForests ==
  { << PassBox("BOX", 0, <<>>, <<"TIP">>), PassBox("TIP", 1, <<"BOX">>, <<>>) >>,
    << PassBox("TIP", 1, <<"BOX">>, <<>>), PassBox("BOX", 0, <<>>, <<"TIP">>) >>,
    << PassBox("TIP", 1, <<"BOX">>, <<>>), PassBox("BOX", 0, <<>>, <<"TIP", "AFT">>),
       PassBox("AFT", 1, <<"BOX">>, <<>>) >>,
    << PassBox("BOX", 0, <<>>, <<>>) >>,
    << PassBox("AFT", 2, <<"TIP">>, <<>>), PassBox("TIP", 1, <<"BOX">>, <<"AFT">>),
       PassBox("BOX", 0, <<>>, <<"TIP">>) >>,
    << PassBox("BOX", 0, <<>>, <<"FIN">>) >>,
    << PassBox("BOX", 0, <<>>, <<"TIP">>), PassBox("TIP", 1, <<"ROOT">>, <<>>) >> }

\* the number of levels of a forest
RECURSIVE LevelsFrom(_, _)
LevelsFrom(forest, k) ==
  IF k > Len(forest) THEN 0 ELSE Max2(forest[k].Level + 1, LevelsFrom(forest, k + 1))

\* the design variables of the runs
PassKinds == {"FFD_CONTROL_POINT", "FFD_TWIST_ANGLE", "HICKS_HENNE"}

PassInit ==
  /\ nDim = 3
  /\ nDV \in 1..MaxDV
  /\ Design_Variable \in [0..(nDV - 1) -> PassKinds]
  /\ Design_Variable[0] \in FFDShapeKinds
  /\ DV_Value = [i \in 0..(nDV - 1) |-> Scale]
  /\ ParamDV = [i \in 0..(nDV - 1) |-> <<0, 0, 0, 0, 0, 0>>]
  /\ VarCoord = [v \in Vertices |-> Zero3]
  /\ pc = "read"
  /\ iDV = 0
  /\ applied = <<>>
  /\ FFDBox = <<>>
  /\ nLevel = 0
  /\ writerOfPartition = FALSE
  /\ mesh_file = <<>>
  /\ FFDBox_in \in PassForests
  /\ nFFDBox_in = Len(FFDBox_in)
  /\ nLevel_in = LevelsFrom(FFDBox_in, 1)
  /\ FFDBoxDefinition = TRUE
  /\ said = <<>>
  /\ exited = FALSE
  /\ fpc = "off"
  /\ atLevel = 0
  /\ atBox = 0
  /\ passAt = "loop"
  /\ passLog = <<>>

\* the tag search `for (jFFDBox = 0; jFFDBox < GetnFFDBox(); jFFDBox++)
\* if (FFDBoxTag == FFDBox[jFFDBox]->GetTag()) break;`: jFFDBox after it
RECURSIVE SearchTag(_, _)
SearchTag(FFDBoxTag, jFFDBox) ==
  IF jFFDBox < nFFDBox_in /\ FFDBoxTag # FFDBox_in[jFFDBox + 1].Tag
    THEN SearchTag(FFDBoxTag, jFFDBox + 1)
    ELSE jFFDBox

\* a call of the pass: the routine, the index of the box it is called on, the
\* index of the second box it is given (or -1), the box of the loop
PassCall(op, box, other, by) == [op |-> op, box |-> box, other |-> other, by |-> by]

\* the routine the switch of the pass calls for a design variable, "" for none
DVRoutine(kind) ==
  CASE kind = "FFD_CONTROL_POINT_2D" -> "SetFFDCPChange_2D"
    [] kind = "FFD_CAMBER_2D" -> "SetFFDCamber_2D"
    [] kind = "FFD_THICKNESS_2D" -> "SetFFDThickness_2D"
    [] kind = "FFD_CONTROL_POINT" -> "SetFFDCPChange"
    [] kind = "FFD_DIHEDRAL_ANGLE" -> "SetFFDDihedralAngle"
    [] kind = "FFD_TWIST_ANGLE" -> "SetFFDTwistAngle"
    [] kind = "FFD_ROTATION" -> "SetFFDRotation"
    [] kind = "FFD_CONTROL_SURFACE" -> "SetFFDControl_Surface"
    [] kind = "FFD_CAMBER" -> "SetFFDCamber"
    [] kind = "FFD_THICKNESS" -> "SetFFDThickness"
    [] OTHER -> ""

\* the routines of the switch
DVRoutines == {DVRoutine(kind) : kind \in FFDShapeKinds}

\* the calls of the loop over the children with routine op
ChildCalls(op, i) ==
  [iChild \in 1..Len(FFDBox_in[i + 1].ChildFFDBox) |->
     PassCall(op, i, SearchTag(FFDBox_in[i + 1].ChildFFDBox[iChild], 0), i)]

\* the calls of the loop over the parents
ParentCalls(i) ==
  [iParent \in 1..Len(FFDBox_in[i + 1].ParentFFDBox) |->
     PassCall("UpdateParametricCoord", SearchTag(FFDBox_in[i + 1].ParentFFDBox[iParent], 0), -1, i)]

\* the calls of the loop over the design variables
RECURSIVE DVCalls(_, _)
DVCalls(i, k) ==
  IF k >= nDV THEN <<>>
  ELSE (IF DVRoutine(Design_Variable[k]) # ""
          THEN <<PassCall(DVRoutine(Design_Variable[k]), i, -1, i)>> ELSE <<>>)
         \o DVCalls(i, k + 1)

\* the calls the pass makes for box i in the turn of level level
BoxCalls(i, level) ==
  ChildCalls("SetParametricCoordCP", i)
    \o (IF level > 0 THEN <<PassCall("UpdateParametricCoord", i, -1, i)>> ELSE <<>>)
    \o DVCalls(i, 0)
    \o <<PassCall("SetCartesianCoord", i, -1, i)>>
    \o ParentCalls(i)
    \o ChildCalls("GetCartesianCoordCP", i)

\* the call uses FFDBox[nFFDBox], one past the last box
PastTheBoxes(call) == call.box = nFFDBox_in \/ call.other = nFFDBox_in

\* the calls up to the first that uses FFDBox[nFFDBox]
RECURSIVE UpToFault(_, _)
UpToFault(made, k) ==
  IF k > Len(made) \/ PastTheBoxes(made[k]) THEN SubSeq(made, 1, Min2(k, Len(made)))
  ELSE UpToFault(made, k + 1)

\* a faulty variant: every box is taken in the turn of every level
InTurn_Always(box, level) == TRUE

\* FFDBox[iFFDBox]->GetLevel() == iLevel
InTurn(box, level) == box.Level = level

passFixed == <<surfVars, fileVars>>

\* the loop goes on to the next box, and after the last box to the next level
\* (the boxes are written for Tecplot in between)
Advance ==
  IF atBox + 1 < nFFDBox_in
    THEN atBox' = atBox + 1 /\ atLevel' = atLevel /\ passAt' = passAt
    ELSE /\ atBox' = 0
         /\ atLevel' = atLevel + 1
         /\ passAt' = IF atLevel + 1 < nLevel_in THEN "loop" ELSE "done"

\* one turn of the loop over the boxes for a box of the level: the six steps
\* of the pass on it; a box read at FFDBox[nFFDBox] is taken as it is found
ProcessBox ==
  /\ passAt = "loop"
  /\ InTurn(FFDBox_in[atBox + 1], atLevel)
  /\ passLog' = passLog \o BoxCalls(atBox, atLevel)
  /\ Advance
  /\ UNCHANGED passFixed
  /\ UNCHANGED notPass

\* the same turn when a tag of the box names no box: the use of
\* FFDBox[nFFDBox] ends the process
FaultInBox ==
  /\ passAt = "loop"
  /\ InTurn(FFDBox_in[atBox + 1], atLevel)
  /\ \E k \in 1..Len(BoxCalls(atBox, atLevel)) : PastTheBoxes(BoxCalls(atBox, atLevel)[k])
  /\ passLog' = passLog \o UpToFault(BoxCalls(atBox, atLevel), 1)
  /\ passAt' = "fault"
  /\ UNCHANGED <<atLevel, atBox>>
  /\ UNCHANGED passFixed
  /\ UNCHANGED notPass

\* one turn of the loop over the boxes for a box of another level
SkipBox ==
  /\ passAt = "loop"
  /\ ~InTurn(FFDBox_in[atBox + 1], atLevel)
  /\ Advance
  /\ UNCHANGED passLog
  /\ UNCHANGED passFixed
  /\ UNCHANGED notPass

PassNext == ProcessBox \/ FaultInBox \/ SkipBox

PassStart ==
  PassInit /\ GridIdle /\ VolIdle /\ RigidIdle /\ BoxIdle /\ NewtonIdle /\ BernIdle /\ BinomialIdle
    /\ MoreIdleBut("pass")

PassSpec == PassStart /\ [][PassNext]_vars

(* ------------------------------ C23 ------------------------------------ *)

\* the calls of the log before position q that the turn of box i made
CallsBy(i, q) ==
  SelectSeq(SubSeq(passLog, 1, q - 1), LAMBDA call : call.by = i)

\* the call reparametrizes box b or applies a design variable to it
MovesBox(call, b) ==
  /\ call.box = b
  /\ call.op \in {"UpdateParametricCoord"} \cup DVRoutines

\* C23: the boxes are processed in order of nesting level: when a box of
\* level L+1 is reparametrized or has a design variable applied, every box of
\* level L has had its whole turn: its parents reparametrized, its design
\* variables applied and the control points of its children recomputed.
C23_LevelByLevel ==
  \A q \in 1..Len(passLog) : \A b, a \in 0..(nFFDBox_in - 1) :
    (MovesBox(passLog[q], b) /\ FFDBox_in[b + 1].Level = FFDBox_in[a + 1].Level + 1)
      => CallsBy(a, q) = BoxCalls(a, FFDBox_in[a + 1].Level)

\* a pass over three levels whose boxes stand in the file in the reverse
\* order has ended: the box of level 2 was moved last
C23_Witness_ThreeLevelsInReverseFileOrder ==
  /\ passAt = "done"
  /\ nLevel_in = 3
  /\ FFDBox_in[1].Level = 2
  /\ passLog # <<>>
  /\ \E q \in 1..Len(passLog) : MovesBox(passLog[q], 0) /\ passLog[q].op = "SetFFDTwistAngle"


(* ------------------------------ C28 ------------------------------------ *)

\* C28: in the apply-deformation pass every parent tag and every child tag of
\* a box resolves to the index of a box before the index is used: no call of
\* the pass is made on FFDBox[nFFDBox].
C28_EveryTagResolves ==
  \A q \in 1..Len(passLog) : ~PastTheBoxes(passLog[q])


(* ------------- SetFFDCPChange and the control points of ReadFFDInfo ----- *)

\* int(x) of a double in fixed point: the fraction is cut off
IntOf(x) == IF x >= 0 THEN x \div Scale ELSE -((-x) \div Scale)

\* the conversion of an int to unsigned short
UShort(x) == x % 2^16

\* the boxes of the runs: degrees (1,1,1) and (2,1,1)
CPBoxes ==
  { [Tag |-> Tag_BOX, lOrder |-> 2, mOrder |-> 2, nOrder |-> 2],
    [Tag |-> Tag_BOX, lOrder |-> 3, mOrder |-> 2, nOrder |-> 2] }

\* the values of the runs for ParamDV(iDV, 1..3): -1 for a whole axis, 0, 1, 2, 1.5
CPIndexParams == {-Scale, 0, Scale, 2 * Scale, Scale + Scale \div 2}

\* control-point records of a mesh file: the corner (0,0,0), the corner
\* (1,1,1), the plane i = 2, a point of row j = 3
CPRecords ==
  { <<"0", " ", "0", " ", "0", " ", "0", ".", "5", " ", "0", " ", "0">>,
    <<"1", "\t", "1", "\t", "1", "\t", "1", "\t", "1", "\t", "1">>,
    <<"2", " ", "0", " ", "1", " ", "2", ".", "5", " ", "0", " ", "1">>,
    <<"0", " ", "3", " ", "1", " ", "0", " ", "3", " ", "1">> }

CPInit ==
  /\ nDim = 3
  /\ nDV = 1
  /\ Design_Variable = [i \in {0} |-> "FFD_CONTROL_POINT"]
  /\ DV_Value = [i \in {0} |-> Scale]
  /\ \E i1, j1, k1 \in CPIndexParams :
       ParamDV = [i \in {0} |-> <<0, i1, j1, k1, Scale, 0, 0>>]
  /\ VarCoord = [v \in Vertices |-> Zero3]
  /\ pc = "read"
  /\ iDV = 0
  /\ applied = <<>>
  /\ FFDBox = <<>>
  /\ nLevel = 0
  /\ writerOfPartition = FALSE
  /\ mesh_file = <<>>
  /\ \E box \in CPBoxes : FFDBox_in = <<box>>
  /\ nFFDBox_in = 1
  /\ nLevel_in = 1
  /\ FFDBoxDefinition = TRUE
  /\ said = <<>>
  /\ exited = FALSE
  /\ fpc = "off"
  /\ FFDTag \in {Tag_BOX, Tag_TIP_2}
  /\ index_used = {}
  /\ cpAt = "read"

\* the index triple lies in the lattice of the box
InLattice(box, ijk) ==
  /\ ijk[1] \in 0..(box.lOrder - 1)
  /\ ijk[2] \in 0..(box.mOrder - 1)
  /\ ijk[3] \in 0..(box.nOrder - 1)

\* where an access to the lattice leaves the run: on its way when every
\* triple lies in the lattice, else on its way or dead
AfterAccess(box, triples, onward) ==
  IF \A ijk \in triples : InLattice(box, ijk) THEN {onward} ELSE {onward, "fault"}

\* one record of FFD_CONTROL_POINTS: `FFDBox_line >> iDegree >> jDegree >>
\* kDegree >> coord[0..2]`, then SetCoordControlPoints and
\* SetCoordControlPoints_Copy with these indices
ReadControlPoint ==
  /\ cpAt = "read"
  /\ \E record \in CPRecords :
       LET fields == Fields(record)
           ijk == <<UShort(Atoi(fields[1])), UShort(Atoi(fields[2])), UShort(Atoi(fields[3]))>>
       IN /\ index_used' = index_used \cup {ijk}
          /\ cpAt' \in AfterAccess(FFDBox_in[1], {ijk}, "set")
  /\ UNCHANGED FFDTag
  /\ UNCHANGED <<surfVars, fileVars>>
  /\ UNCHANGED notCP

\* the order of the box along axis d
OrderOf(box, d) ==
  CASE d = 1 -> box.lOrder
    [] d = 2 -> box.mOrder
    [] d = 3 -> box.nOrder

\* the triples of one `if` of SetFFDCPChange: the test holds when
\* int(ParamDV(iDV, d)) == -1 on the axes swept and on no other; the loops
\* run over the axes swept, index[d] keeps (unsigned short) int(ParamDV(iDV, d))
\* on the others
TriplesOfCase(box, param, swept) ==
  LET along(d) == IF d \in swept THEN 0..(OrderOf(box, d) - 1)
                  ELSE {UShort(IntOf(param[d + 1]))}
  IN IF \A d \in 1..3 : (IntOf(param[d + 1]) = -1) <=> (d \in swept)
       THEN along(1) \X along(2) \X along(3)
       ELSE {}

\* the axes swept by the seven `if` of SetFFDCPChange, in their order
CasesOfSetFFDCPChange == <<{1}, {2}, {3}, {1, 2}, {2, 3}, {1, 3}, {}>>

\* the index triples SetFFDCPChange passes to SetControlPoints
SetControlPointsTriples(box, param) ==
  UNION {TriplesOfCase(box, param, CasesOfSetFFDCPChange[c]) : c \in 1..7}

\* CSurfaceMovement::SetFFDCPChange on the box, for design variable 0
SetFFDCPChange ==
  /\ cpAt = "set"
  /\ LET triples == IF FFDTag = FFDBox_in[1].Tag
                      THEN SetControlPointsTriples(FFDBox_in[1], ParamDV[0]) ELSE {}
     IN /\ index_used' = index_used \cup triples
        /\ cpAt' \in AfterAccess(FFDBox_in[1], triples, "done")
  /\ UNCHANGED FFDTag
  /\ UNCHANGED <<surfVars, fileVars>>
  /\ UNCHANGED notCP

CPNext == ReadControlPoint \/ SetFFDCPChange

CPStart ==
  CPInit /\ GridIdle /\ VolIdle /\ RigidIdle /\ BoxIdle /\ NewtonIdle /\ BernIdle /\ BinomialIdle
    /\ MoreIdleBut("cp")

CPSpec == CPStart /\ [][CPNext]_vars

(* ------------------------------ C24 ------------------------------------ *)

\* C24: every index triple the control lattice of a box is read or written
\* with lies within [0,l] x [0,m] x [0,n] of the degrees of the box, for any
\* parameters of SetFFDCPChange and any control-point record ReadFFDInfo reads.
C24_IndicesWithinTheLattice ==
  \A ijk \in index_used : InLattice(FFDBox_in[1], ijk)


(* -------------------------- Surface_Translating ------------------------- *)

\* config->GetMarker_All_TagBound(iMarker) of the two markers of the boundary
Marker_All_TagBound == <<"airfoil", "flap">>

\* the translation rates a moving marker is configured with
SurfaceRates == {<<1, 0, 0>>, <<0, 2, -1>>}

\* the options Surface_Translating reads: Marker_Moving and Marker_Monitoring
\* are lists of tags, Translation_Rate and MoveMotion_Origin go by jMarker,
\* Marker_All_Moving goes by iMarker and is YES for the tags of Marker_Moving
SurfaceConfigs ==
  { [Marker_Moving |-> moving,
     Marker_All_Moving |->
       [iMarker \in 1..2 |->
          IF \E jMarker \in 1..Len(moving) : moving[jMarker] = Marker_All_TagBound[iMarker]
            THEN YES ELSE NO],
     Translation_Rate |-> rate,
     MoveMotion_Origin |-> move,
     Marker_Monitoring |-> monitoring] :
      moving \in {<<"airfoil">>, <<"flap">>, <<"airfoil", "flap">>, <<"flap", "airfoil">>},
      rate \in [1..2 -> SurfaceRates],
      move \in [1..2 -> {YES, NO}],
      monitoring \in {<<"airfoil">>, <<"flap", "airfoil">>} }

TranslatingInit ==
  /\ nDim \in {2, 3}
  /\ rconfig \in SurfaceConfigs
  /\ \A jMarker \in 1..2 :
       jMarker > Len(rconfig.Marker_Moving)
         => rconfig.Translation_Rate[jMarker] = <<1, 0, 0>> /\ rconfig.MoveMotion_Origin[jMarker] = NO
  /\ iZone = ZONE_0
  /\ ExtIter \in 0..1
  /\ rCoord = <<>>
  /\ GridVel = <<>>
  /\ Motion_Origin = [jMarker \in 1..Len(rconfig.Marker_Moving) |-> Zero3]
  /\ RefOriginMoment = [jMarker \in 1..Len(rconfig.Marker_Monitoring) |-> <<1, 1, 1>>]
  /\ calls = <<>>
  /\ VarCoord = [v \in Vertices |-> [d \in 1..3 |-> IF d <= nDim THEN Stale ELSE 0]]
  /\ nDV = 0
  /\ Design_Variable = <<>>
  /\ DV_Value = <<>>
  /\ ParamDV = <<>>
  /\ pc = "off"
  /\ iDV = 0
  /\ applied = <<>>

\* time_new - time_old of Surface_Translating
SurfaceTimeStep(iter, deltaT) ==
  LET time_new == iter * deltaT
      time_old == IF iter = 0 THEN time_new ELSE (iter - 1) * deltaT
  IN time_new - time_old

\* VarCoord as the body of the loops sets it for moving marker jMarker
TranslatingVarCoord(cfg, jMarker, iter, deltaT) ==
  [d \in 1..3 |-> cfg.Translation_Rate[jMarker][d] * SurfaceTimeStep(iter, deltaT)]

\* the pairs <<iMarker, jMarker>> the body of the two loops runs for, in the
\* order of the loops
MovingPairs(cfg) ==
  LET nMoving == Len(cfg.Marker_Moving)
      pair(k) == <<((k - 1) \div nMoving) + 1, ((k - 1) % nMoving) + 1>>
      all == [k \in 1..(2 * nMoving) |-> pair(k)]
  IN SelectSeq(all, LAMBDA p : /\ cfg.Marker_All_Moving[p[1]] = YES
                               /\ Marker_All_TagBound[p[1]] = cfg.Marker_Moving[p[2]])

\* the local VarCoord after the loops: the one set last, or its initial zero
LastVarCoord(cfg, iter, deltaT) ==
  LET pairs == MovingPairs(cfg)
  IN IF pairs = <<>> THEN Zero3
     ELSE TranslatingVarCoord(cfg, pairs[Len(pairs)][2], iter, deltaT)

\* the delta of vertex v after the loops
TranslatedVertex(cfg, v, iter, deltaT) ==
  LET mine == SelectSeq(MovingPairs(cfg), LAMBDA p : p[1] = VertexMarker[v])
  IN IF mine = <<>> THEN VarCoord[v]
     ELSE SetVarCoord(VarCoord[v], TranslatingVarCoord(cfg, mine[Len(mine)][2], iter, deltaT))

\* CSurfaceMovement::Surface_Translating(geometry, config, iter, iZone), the
\* host having configured the time step deltaT
Surface_Translating ==
  /\ rconfig \in SurfaceConfigs
  /\ Len(calls) < MaxRigidCalls
  /\ \E deltaT \in DeltaTs :
       LET last == LastVarCoord(rconfig, ExtIter, deltaT)
       IN /\ VarCoord' = [v \in Vertices |-> TranslatedVertex(rconfig, v, ExtIter, deltaT)]
          /\ Motion_Origin' =
               [jMarker \in DOMAIN Motion_Origin |->
                  IF rconfig.MoveMotion_Origin[jMarker] = YES
                    THEN Translated(Motion_Origin[jMarker], last)
                    ELSE Motion_Origin[jMarker]]
          /\ RefOriginMoment' =
               [jMarker \in DOMAIN RefOriginMoment |-> Translated(RefOriginMoment[jMarker], last)]
          /\ calls' = Append(calls, CallRecord("SURFACE_TRANSLATING", deltaT))
  /\ ExtIter' = ExtIter + 1
  /\ UNCHANGED <<nDim, rconfig, iZone, rCoord, GridVel>>
  /\ UNCHANGED <<nDV, Design_Variable, DV_Value, ParamDV, pc, iDV, applied>>
  /\ UNCHANGED <<gridVars, volVars, ffdVars>>

TranslatingNext == Surface_Translating

TranslatingStart ==
  TranslatingInit /\ GridIdle /\ VolIdle /\ FFDIdle

TranslatingSpec == TranslatingStart /\ [][TranslatingNext]_vars

(* ------------------------------ C25 ------------------------------------ *)

\* the moving marker of a tag, 0 if the tag is of no moving marker
MovingMarkerOf(cfg, tag) ==
  IF \E jMarker \in 1..Len(cfg.Marker_Moving) : cfg.Marker_Moving[jMarker] = tag
    THEN CHOOSE jMarker \in 1..Len(cfg.Marker_Moving) : cfg.Marker_Moving[jMarker] = tag
    ELSE 0

\* C25: after Surface_Translating the motion origin of each moving marker
\* that tracks it, and the moment origin of each monitored marker that moves,
\* have been advanced by the translation of the vertices of that marker in
\* this step, also when the moving markers have different translation rates.
C25_OriginsFollowTheirMarker ==
  calls # <<>> /\ calls[Len(calls)].routine = "SURFACE_TRANSLATING" =>
    LET call == calls[Len(calls)]
        Own(jMarker) == TranslatingVarCoord(rconfig, jMarker, call.iter, call.deltaT)
    IN /\ \A jMarker \in DOMAIN Motion_Origin :
            rconfig.MoveMotion_Origin[jMarker] = YES =>
              Motion_Origin[jMarker] = Translated(call.before.Motion_Origin[jMarker], Own(jMarker))
       /\ \A jMarker \in DOMAIN RefOriginMoment :
            MovingMarkerOf(rconfig, rconfig.Marker_Monitoring[jMarker]) # 0 =>
              RefOriginMoment[jMarker]
                = Translated(call.before.RefOriginMoment[jMarker],
                             Own(MovingMarkerOf(rconfig, rconfig.Marker_Monitoring[jMarker])))


(* ------------------------------ C26 ------------------------------------ *)

\* C26: in a run that is not adjoint, Rigid_Rotation called with iter = 0
\* leaves the coordinates of every node and the moment origin of the
\* monitored marker as they were, for any rotation center, rotation rate and
\* reference length.
C26_FirstDirectRotationMovesNothing ==
  \A k \in 1..Len(calls) :
    (calls[k].routine = "ROTATION" /\ calls[k].iter = 0 /\ ~rconfig.Adjoint /\ k = Len(calls))
      => /\ rCoord = calls[k].before.Coord
         /\ RefOriginMoment = calls[k].before.RefOriginMoment


(* ------------------------------ C27 ------------------------------------ *)

\* the coordinates of the nodes after the direct iterations 0..m of
\* Rigid_Translation with time step deltaT, from the initial mesh
RECURSIVE DirectCoordAfter(_, _, _)
DirectCoordAfter(cfg, m, deltaT) ==
  IF m < 0 THEN RigidInitialCoord
  ELSE MovedCoord(DirectCoordAfter(cfg, m - 1, deltaT),
                  DeltaX([cfg EXCEPT !.Adjoint = FALSE], iZone, m, deltaT))

\* the calls so far are the iterations 0..k of Rigid_Translation, all with
\* the time step of the first
TranslationsFromStart ==
  /\ calls # <<>>
  /\ \A k \in 1..Len(calls) :
       /\ calls[k].routine = "TRANSLATION"
       /\ calls[k].iter = k - 1
       /\ calls[k].deltaT = calls[1].deltaT

\* C27: from the same initial mesh, the coordinates of the nodes after the
\* adjoint iterations 0..k of Rigid_Translation are those after the direct
\* iterations 0..(nFlowIter-1-k), for every k.
C27_AdjointRevisitsDirectPositions ==
  (rconfig.Adjoint /\ rconfig.Unsteady_Simulation = "TIME_STEPPING" /\ TranslationsFromStart)
    => rCoord = DirectCoordAfter(rconfig, rconfig.nExtIter - 1 - (Len(calls) - 1), calls[1].deltaT)


(* ---------------- CPoint: the map of vertices by marker ----------------- *)

\* the most calls made on a point
MaxPointCalls == 3

\* the markers of the mesh
PointMarkers == 0..1

\* the vertices a point is given on a marker
PointVertices == 0..1

\* a point as the geometry hands it over: an inner point (no map), or a
\* boundary point with a map of no vertex yet (-1 on every marker)
PointInit ==
  /\ \/ Boundary = FALSE /\ vertex = "NULL" /\ vertexMap = <<>>
     \/ Boundary = TRUE /\ vertex = "allocated" /\ vertexMap = [m \in PointMarkers |-> -1]
  /\ nDelete = 0
  /\ nInvalid = 0
  /\ GetVertexOut = <<>>
  /\ nPointCalls = 0

\* CPoint::ResetBoundary: `if (vertex != NULL) delete [] vertex; Boundary =
\* false;` -- the pointer keeps its value
ResetBoundary ==
  /\ nPointCalls < MaxPointCalls
  /\ IF vertex # "NULL"
       THEN vertex' = "deleted" /\ nDelete' = nDelete + 1
       ELSE UNCHANGED <<vertex, nDelete>>
  /\ Boundary' = FALSE
  /\ nPointCalls' = nPointCalls + 1
  /\ UNCHANGED <<vertexMap, nInvalid, GetVertexOut>>
  /\ UNCHANGED notPoint

\* CPoint::SetBoundary(bool val_boundary)
SetBoundary ==
  /\ nPointCalls < MaxPointCalls
  /\ \E val_boundary \in BOOLEAN : Boundary' = val_boundary
  /\ nPointCalls' = nPointCalls + 1
  /\ UNCHANGED <<vertex, vertexMap, nDelete, nInvalid, GetVertexOut>>
  /\ UNCHANGED notPoint

\* CPoint::SetVertex(val_vertex, val_nmarker): `if (Boundary)
\* vertex[val_nmarker] = val_vertex;` -- a write through a pointer that is
\* NULL or dangling goes to no entry of the map
SetVertex ==
  /\ nPointCalls < MaxPointCalls
  /\ \E val_vertex \in PointVertices, val_nmarker \in PointMarkers :
       IF Boundary
         THEN IF vertex = "allocated"
                THEN /\ vertexMap' = [vertexMap EXCEPT ![val_nmarker] = val_vertex]
                     /\ UNCHANGED nInvalid
                ELSE /\ nInvalid' = nInvalid + 1
                     /\ UNCHANGED vertexMap
         ELSE UNCHANGED <<vertexMap, nInvalid>>
  /\ nPointCalls' = nPointCalls + 1
  /\ UNCHANGED <<Boundary, vertex, nDelete, GetVertexOut>>
  /\ UNCHANGED notPoint

\* CPoint::GetVertex(val_marker): `if (Boundary) return vertex[val_marker];
\* else return -1;` -- a read through a pointer that is NULL or dangling
\* returns whatever is found
GetVertex ==
  /\ nPointCalls < MaxPointCalls
  /\ \E val_marker \in PointMarkers :
       IF Boundary
         THEN IF vertex = "allocated"
                THEN GetVertexOut' = <<vertexMap[val_marker]>> /\ UNCHANGED nInvalid
                ELSE /\ \E found \in {-1} \cup PointVertices : GetVertexOut' = <<found>>
                     /\ nInvalid' = nInvalid + 1
         ELSE GetVertexOut' = <<-1>> /\ UNCHANGED nInvalid
  /\ nPointCalls' = nPointCalls + 1
  /\ UNCHANGED <<Boundary, vertex, vertexMap, nDelete>>
  /\ UNCHANGED notPoint

PointNext == ResetBoundary \/ SetBoundary \/ SetVertex \/ GetVertex

PointStart == PointInit /\ OldIdle /\ MoreIdleBut("point")

PointSpec == PointStart /\ [][PointNext]_vars

(* ------------------------------ C29 ------------------------------------ *)

\* C29: for any sequence of ResetBoundary, SetBoundary, SetVertex and
\* GetVertex on a point, the map of vertices by marker is released at most
\* once, and it is read and written only while it is valid.
C29_MapReleasedOnceAndUsedWhileValid ==
  /\ nDelete <= 1
  /\ nInvalid = 0


(* ------------------------ SetExternal_Deformation ----------------------- *)

\* geometry->vertex[iMarker][iVertex]->GetNode() of the vertices of the boundary
ExternalNode(v) == v - 1

ExternalPoints == {ExternalNode(v) : v \in Vertices}

\* geometry->node[jPoint]->GetGlobalIndex(): this rank holds the second
\* block of the points of the mesh
GlobalIndex(jPoint) == jPoint + Cardinality(Vertices)

\* geometry->node[iPoint]->GetCoord() of the points of the boundary
ExternalCoord == [p \in ExternalPoints |-> <<p + p, 4, 0>>]

\* a record of the motion file for the point with global index g: the point
\* moved by two along x and y
MotionRecord(g) ==
  [iPoint |-> g, NewCoord |-> <<(g - Cardinality(Vertices)) * 2 + 2, 6, 0>>]

\* the motion files at hand: an empty one, one of a single point of the first
\* marker, one of a point of each marker and of a point of another rank, and
\* one of every point of the boundary
MotionFiles ==
  { <<>>,
    <<MotionRecord(GlobalIndex(1))>>,
    <<MotionRecord(GlobalIndex(ExternalNode(5))), MotionRecord(0), MotionRecord(GlobalIndex(0))>>,
    [k \in 1..Cardinality(Vertices) |-> MotionRecord(GlobalIndex(k - 1))] }

\* the options SetExternal_Deformation reads
ExternalConfigs ==
  [Unsteady_Simulation : BOOLEAN,
   Adjoint : BOOLEAN,
   nExtIter : {MaxRigidCalls + 1 + 1},
   Length_Ref : {1, 1 + 1},
   Kind_GridMovement : {"EXTERNAL", "EXTERNAL_ROTATION"},
   Delta_UnstTimeND : {1},
   Marker_All_Moving : {<<YES, NO>>, <<NO, YES>>, <<YES, YES>>}]

ExternalInit ==
  /\ nDim \in {2, 3}
  /\ rconfig \in ExternalConfigs
  /\ iZone = ZONE_0
  /\ ExtIter \in 0..1
  /\ rCoord = ExternalCoord
  /\ GridVel = <<>>
  /\ Motion_Origin = [z \in Zones |-> <<2, 0, 0>>]
  /\ RefOriginMoment = Zero3
  /\ calls = <<>>
  /\ \E left \in {0, Stale} :
       VarCoord = [v \in Vertices |-> [d \in 1..3 |-> IF d <= nDim THEN left ELSE 0]]
  /\ nDV = 0
  /\ Design_Variable = <<>>
  /\ DV_Value = <<>>
  /\ ParamDV = <<>>
  /\ pc = "off"
  /\ iDV = 0
  /\ applied = <<>>

\* flowIter, the iteration the name of the motion file is made of
ExternalFlowIter(cfg, iter) ==
  IF cfg.Unsteady_Simulation
    THEN IF cfg.Adjoint THEN (cfg.nExtIter - 1) - iter ELSE iter
    ELSE 0

\* the vertex of marker iMarker the search loop stops at for global index
\* iPoint: the first one of that index (0: there is none)
FirstVertexOf(iMarker, iPoint) ==
  LET hits == {v \in Vertices : /\ VertexMarker[v] = iMarker
                                /\ GlobalIndex(ExternalNode(v)) = iPoint}
  IN IF hits = {} THEN 0 ELSE CHOOSE v \in hits : \A w \in hits : v <= w

\* the records of the file that are stored on vertex v, in the order of the file
RecordsOf(cfg, file, v) ==
  SelectSeq(file, LAMBDA rec : /\ cfg.Marker_All_Moving[VertexMarker[v]] = YES
                               /\ FirstVertexOf(VertexMarker[v], rec.iPoint) = v)

\* the VarCoord of vertex v after the file was read: SetVarCoord(NewCoord) of
\* the last record stored on it, or what it held before
ReadNewCoord(cfg, file, v) ==
  LET mine == RecordsOf(cfg, file, v)
  IN IF mine = <<>> THEN VarCoord[v]
     ELSE SetVarCoord(VarCoord[v], mine[Len(mine)].NewCoord)

\* dt of the rotation: iter * Delta_UnstTimeND, reversed in the adjoint run,
\* none at the first iteration
ExternalDt(cfg, iter) ==
  LET dt == iter * cfg.Delta_UnstTimeND
  IN IF cfg.Adjoint
       THEN IF iter = 0 THEN (cfg.nExtIter - 1) * dt ELSE -dt
       ELSE IF iter = 0 THEN 0 ELSE dt

\* Coord_New of a vertex in the second loop: what the vertex holds, rotated
\* about the motion origin in a run of kind EXTERNAL_ROTATION
ExternalCoord_New(cfg, held, iter) ==
  IF cfg.Kind_GridMovement = "EXTERNAL_ROTATION"
    THEN LET Center == Motion_Origin[iZone]
             rot == RotCoord(RotMatrix(Rotation_Rate[iZone], ExternalDt(cfg, iter)),
                             FromCenter(held, Center))
         IN [d \in 1..3 |-> IF d <= nDim THEN rot[d] + Center[d] ELSE held[d]]
    ELSE held

\* the delta of vertex v after the second loop: (Coord_New - Coord_Old)/Lref
\* on the vertices of the moving markers
ExternalDelta(cfg, file, v, iter) ==
  IF cfg.Marker_All_Moving[VertexMarker[v]] = YES
    THEN LET held == ReadNewCoord(cfg, file, v)
             new == ExternalCoord_New(cfg, held, iter)
             old == rCoord[ExternalNode(v)]
         IN SetVarCoord(new, [d \in 1..3 |-> (new[d] - old[d]) \div cfg.Length_Ref])
    ELSE VarCoord[v]

\* what the model keeps of a call of SetExternal_Deformation
ExternalCall(file) ==
  [routine |-> "EXTERNAL", iter |-> ExtIter,
   flowIter |-> ExternalFlowIter(rconfig, ExtIter), motion_file |-> file]

\* CSurfaceMovement::SetExternal_Deformation(geometry, config, iZone, iter),
\* a motion file of the name being at hand
SetExternal_Deformation ==
  /\ rconfig \in ExternalConfigs
  /\ pc = "off"
  /\ Len(calls) < MaxRigidCalls
  /\ ExtIter < rconfig.nExtIter
  /\ \E file \in MotionFiles :
       /\ VarCoord' = [v \in Vertices |-> ExternalDelta(rconfig, file, v, ExtIter)]
       /\ calls' = Append(calls, ExternalCall(file))
  /\ ExtIter' = ExtIter + 1
  /\ UNCHANGED <<nDim, rconfig, iZone, rCoord, GridVel, Motion_Origin, RefOriginMoment>>
  /\ UNCHANGED <<nDV, Design_Variable, DV_Value, ParamDV, pc, iDV, applied>>
  /\ UNCHANGED <<gridVars, volVars, ffdVars>>

\* SetExternal_Deformation when the motion file cannot be opened: "There is
\* no mesh motion file!" and exit(EXIT_FAILURE)
NoMeshMotionFile ==
  /\ rconfig \in ExternalConfigs
  /\ pc = "off"
  /\ Len(calls) < MaxRigidCalls
  /\ ExtIter < rconfig.nExtIter
  /\ pc' = "exit"
  /\ UNCHANGED <<nDim, rconfig, iZone, ExtIter, rCoord, GridVel, Motion_Origin,
                 RefOriginMoment, calls>>
  /\ UNCHANGED <<nDV, Design_Variable, DV_Value, ParamDV, VarCoord, iDV, applied>>
  /\ UNCHANGED <<gridVars, volVars, ffdVars>>

ExternalNext == SetExternal_Deformation \/ NoMeshMotionFile

ExternalStart ==
  ExternalInit /\ GridIdle /\ VolIdle /\ FFDIdle

ExternalSpec == ExternalStart /\ [][ExternalNext]_vars

(* ------------------------------ C30 ------------------------------------ *)

\* vertex v lies on a moving marker and no record of the file has its global index
Unmatched(cfg, file, v) ==
  /\ cfg.Marker_All_Moving[VertexMarker[v]] = YES
  /\ \A k \in 1..Len(file) : file[k].iPoint # GlobalIndex(ExternalNode(v))

\* C30: after SetExternal_Deformation a vertex on a moving marker whose
\* global index matches no record of the motion file holds a zero delta,
\* whatever delta an earlier call left on it.
C30_UnmatchedVertexEndsWithZeroDelta ==
  calls # <<>> =>
    \A v \in Vertices :
      Unmatched(rconfig, calls[Len(calls)].motion_file, v) =>
        \A d \in 1..nDim : VarCoord[v][d] = 0

====
